---------------------------- MODULE Spec2Model ----------------------------
(***************************************************************************)
(* Opening-range-breakout signal detection, trade simulation and result    *)
(* aggregation of the htmw toolkit.                                        *)
(*                                                                         *)
(* Prices are integers in cents.  Amounts of profit (pnl, pnlAcc) are held *)
(* in half-cents, so that the 0.5 scale-out factor of the source is exact: *)
(* remainingQty is counted in halves (1 is 0.5, 2 is 1.0).  Ratios         *)
(* (returnPercent, relVol, winRate, profitFactor) are exact fractions      *)
(* [num, den] with den > 0; the source computes them in IEEE doubles.      *)
(***************************************************************************)
EXTENDS Integers, Sequences, FiniteSets

VARIABLES
    site,        \* the driver this behaviour runs
    data,        \* fetched candles (or the ledger handed to aggregateResults)
    params,      \* ORBParams of backtestIntraday
    pc,          \* control point of the driver
    days,        \* the fetched candles grouped into sessions, in Map order
    d,           \* index of the session (or date) being processed
    sym,         \* runPortfolioBacktest: index of the ticker being scanned
    prevClose,   \* testTicker's prevClose
    i,           \* index of the candle being processed (1-based)
    range,       \* opening range computed for the current session, or None
    position,    \* the open position (or simulateTrade's local state), or None
    signal,      \* the last signal computed, or None
    dailySignals,\* runPortfolioBacktest: signals of the current date
    top5,        \* runPortfolioBacktest: the signals admitted on the current date
    k,           \* runPortfolioBacktest: index into top5
    trades,      \* the trade ledger
    botState,    \* trade bot: its state file (None when absent)
    state,       \* trade bot: the state held in memory during a run
    today,       \* the calendar date of the clock
    result,      \* aggregateResults: the results returned so far
    run          \* lose bot, fetchers, simulator: the locals or fields of the run

vars == <<site, data, params, pc, days, d, sym, prevClose, i, range, position,
          signal, dailySignals, top5, k, trades, botState, state, today, result, run>>

botVars == <<botState, state, today, run>>

None == [none |-> TRUE]

----------------------------------------------------------------------------
(* Arithmetic helpers *)

Abs(x) == IF x < 0 THEN -x ELSE x

Max2(a, b) == IF a >= b THEN a ELSE b

Min2(a, b) == IF a <= b THEN a ELSE b

Rat(n, dn) == [num |-> n, den |-> dn]

RatEq(a, b) == a.num * b.den = b.num * a.den

RatLt(a, b) == a.num * b.den < b.num * a.den

RatLe(a, b) == a.num * b.den <= b.num * a.den

Last(s) == s[Len(s)]

RECURSIVE SeqSum(_)
SeqSum(s) == IF s = <<>> THEN 0 ELSE s[1] + SeqSum(Tail(s))

RECURSIVE SeqMax(_)
SeqMax(s) == IF Len(s) = 1 THEN s[1] ELSE Max2(s[1], SeqMax(Tail(s)))

RECURSIVE SeqMin(_)
SeqMin(s) == IF Len(s) = 1 THEN s[1] ELSE Min2(s[1], SeqMin(Tail(s)))

Slice(s, from, to) == SubSeq(s, from + 1, Min2(to, Len(s)))

----------------------------------------------------------------------------
(* Bounds of the model *)

MaxTail == 3

NSyms == 6

MaxLedger == 4

MaxDays == 2

\* runs of the lose bot in one behaviour
MaxRuns == 2

----------------------------------------------------------------------------
(* Candle shapes.  A shape has no date; Dated stamps a session's candles. *)

Shape(o, h, l, c, v) == [open |-> o, high |-> h, low |-> l, close |-> c, volume |-> v]

\* candles of an opening window with range 100.00 .. 102.00, average volume 1000
OpenA == Shape(10100, 10200, 10100, 10150, 1200)
OpenB == Shape(10150, 10150, 10000, 10100, 800)

\* candles after the window, relative to that range (entry 102.00 or 100.00)
Quiet   == Shape(10100, 10150, 10050, 10100, 1500)
Up      == Shape(10200, 10250, 10150, 10220, 1300)
UpThin  == Shape(10200, 10250, 10150, 10220, 900)
UpZero  == Shape(10200, 10250, 10150, 10220, 0)
UpEven  == Shape(10200, 10250, 10150, 10220, 1200)
Target  == Shape(10300, 10400, 10300, 10350, 1300)
Back    == Shape(10250, 10260, 10200, 10205, 1000)
Down    == Shape(10000, 10050, 9950, 9980, 1300)
DownTgt == Shape(9900, 9900, 9800, 9850, 1300)
Outside == Shape(10100, 10400, 9800, 10100, 1400)
\* a bar that trades above the range and closes below it
Reverse == Shape(10100, 10250, 9950, 9980, 1300)

Alphabet == {Quiet, Up, UpThin, UpZero, Target, Back, Down, DownTgt, Outside}

WScenario == <<OpenA, OpenB, OpenA, OpenB, OpenA, OpenB>>

\* range 101.00 .. 101.40: below the 0.5% band
NarrowC == Shape(10100, 10140, 10100, 10120, 1000)
WNarrow == <<NarrowC, NarrowC, NarrowC, NarrowC, NarrowC, NarrowC>>

\* range 100.00 .. 108.00: inside the 12% band, outside the live bot's 4% band
MidC == Shape(10100, 10800, 10000, 10200, 1000)
WMid == <<MidC, OpenB, OpenB, OpenB, OpenB, OpenB>>

\* range 100.00 .. 115.00: above the 12% band
WideC == Shape(10100, 11500, 10000, 10200, 1000)
WWide == <<WideC, OpenB, OpenB, OpenB, OpenB, OpenB>>

\* a stock under 5 dollars, range 4.00 .. 4.10
PennyC == Shape(405, 410, 400, 405, 1000)
WPenny == <<PennyC, PennyC, PennyC, PennyC, PennyC, PennyC>>
PennyUp == Shape(410, 420, 410, 415, 1300)

\* a window whose high equals its low
FlatC == Shape(10100, 10100, 10100, 10100, 1000)
WFlat == <<FlatC, FlatC, FlatC, FlatC, FlatC, FlatC>>

\* the scenario window with no volume reported
WNoVol == [n \in 1..6 |-> [WScenario[n] EXCEPT !.volume = 0]]

MidUp == Shape(10800, 10900, 10700, 10850, 1300)

Windows == {WScenario, WNarrow, WMid, WWide, WPenny, WFlat, WNoVol}

TailsUpTo(A, n) == UNION {[1..m -> A] : m \in 0..n}

\* closes of the prior session: gap to the 101.00 open of 0%, 0.1%, 0.4%, 1%
PrevCloses == {10100, 10090, 10060, 10000}

Dated(shapes, day) ==
    [n \in 1..Len(shapes) |->
        [date |-> <<day, n>>, open |-> shapes[n].open, high |-> shapes[n].high,
         low |-> shapes[n].low, close |-> shapes[n].close,
         volume |-> shapes[n].volume]]

\* a prior session of four identical candles closing at p
PrevDay(p, day) == Dated([n \in 1..4 |-> Shape(p, p, p, p, 1000)], day)

\* a complete prior session that trades: breakout, target, back to entry
FullDay(day) == Dated(WScenario \o <<Up, Target, Back>>, day)

Prefixes ==
    {<<>>} \cup {PrevDay(p, 2) : p \in PrevCloses}
           \cup {PrevDay(10000, 1) \o FullDay(2)}

\* sessions that pass every filter, with every tail up to MaxTail
TradeCases ==
    {PrevDay(10000, 2) \o Dated(WScenario \o t, 3) : t \in TailsUpTo(Alphabet, MaxTail)}

\* every window after every prior session, with at most one candle after it
FilterCases ==
    {p \o Dated(w \o t, 3) :
        p \in Prefixes, w \in Windows,
        t \in TailsUpTo({Quiet, Up, UpThin, UpEven, Down, PennyUp, MidUp}, 1)}

\* sessions cut short, down to no candle at all
ShortCases ==
    {p \o Dated(SubSeq(WScenario, 1, n), 3) :
        p \in {<<>>, PrevDay(10000, 2), PrevDay(10000, 1) \o FullDay(2)}, n \in 0..6}

\* two sessions that can both trade
TwoDayCases ==
    {PrevDay(10000, 1) \o FullDay(2) \o Dated(WScenario \o t, 3) :
        t \in TailsUpTo(Alphabet, 2)}

\* a breakout bar whose volume is exactly 1.2 times the average, then one more
GateCases ==
    {PrevDay(10000, 2) \o Dated(WScenario \o <<UpEven, x>>, 3) : x \in {Quiet, Up}}

SessionData == TradeCases \cup FilterCases \cup ShortCases \cup TwoDayCases \cup GateCases


----------------------------------------------------------------------------
(* Sessions and the opening range *)

OpeningRangeSize == 6

\* c.date.split('T')[0]: the calendar date of a candle's timestamp
DayOf(c) == c.date[1]

\* a Map from date to candles, filled in the order of the data: the group of
\* a date sits where the date was first seen
RECURSIVE GroupByDay(_)
GroupByDay(cs) ==
    IF cs = <<>> THEN <<>>
    ELSE LET acc == GroupByDay(SubSeq(cs, 1, Len(cs) - 1))
             c == Last(cs)
             hit == {n \in 1..Len(acc) : DayOf(acc[n][1]) = DayOf(c)}
         IN  IF hit = {} THEN Append(acc, <<c>>)
             ELSE LET n == CHOOSE x \in hit : TRUE
                  IN  [acc EXCEPT ![n] = Append(@, c)]

\* candles.slice(0, n) reduced to its high, low and summed volume; the
\* average volume is volSum / n
OpeningRange(candles, n) ==
    LET w == Slice(candles, 0, n)
        hi == SeqMax([x \in 1..Len(w) |-> w[x].high])
        lo == SeqMin([x \in 1..Len(w) |-> w[x].low])
    IN  [high |-> hi, low |-> lo, height |-> hi - lo,
         avgVol |-> Rat(SeqSum([x \in 1..Len(w) |-> w[x].volume]), n)]

\* rangePct < lo/1000 || rangePct > hi/1000, with rangePct = height / low
RangeRejected(rng, loMille, hiMille) ==
    \/ rng.height * 1000 < loMille * rng.low
    \/ rng.height * 1000 > hiMille * rng.low

\* Math.abs((open - prevClose) / prevClose) against mille / 1000
GapPct(open, prev) == Rat(Abs(open - prev), Abs(prev))

\* (totalPnl / entryPrice) * 100, totalPnl in half-cents
ReturnPercent(totalPnl, entryPrice) == Rat(totalPnl * 100, 2 * entryPrice)

----------------------------------------------------------------------------
(* testTicker: src/verify_orb.js *)

\* if (candles.length < 7) continue
TickerTooShort(candles) == Len(candles) < OpeningRangeSize + 1

\* isGap of one session given the prevClose carried from the session before
TickerIsGap(candles, prev) ==
    /\ prev > 0
    /\ RatLt(Rat(2, 1000), GapPct(candles[1].open, prev))

\* the entry branch of the bar loop
TickerEntry(c, rng) ==
    LET volReq == c.volume * rng.avgVol.den * 10 > rng.avgVol.num * 12
    IN  IF c.high > rng.high /\ volReq THEN
            [side |-> "LONG", entryPrice |-> rng.high, stop |-> rng.low,
             target1 |-> rng.high + rng.height, scaledOut |-> FALSE,
             maxPrice |-> c.high, entryTime |-> c.date, pnlAcc |-> 0]
        ELSE IF c.low < rng.low /\ volReq THEN
            [side |-> "SHORT", entryPrice |-> rng.low, stop |-> rng.high,
             target1 |-> rng.low - rng.height, scaledOut |-> FALSE,
             minPrice |-> c.low, entryTime |-> c.date, pnlAcc |-> 0]
        ELSE None

\* a scale-out that leaves the stop where it was
TickerScaleOutKeepsStop(pos) ==
    [pos EXCEPT !.pnlAcc = @ + (IF pos.side = "LONG"
                                THEN pos.target1 - pos.entryPrice
                                ELSE pos.entryPrice - pos.target1),
                !.scaledOut = TRUE]

\* the scale-out step: half the position realised at target1, stop to entry
TickerScaleOut(pos) ==
    [pos EXCEPT !.pnlAcc = @ + (IF pos.side = "LONG"
                                THEN pos.target1 - pos.entryPrice
                                ELSE pos.entryPrice - pos.target1),
                !.stop = pos.entryPrice,
                !.scaledOut = TRUE]

TickerHitsTarget(pos, c) ==
    IF pos.side = "LONG" THEN c.high >= pos.target1 ELSE c.low <= pos.target1

TickerHitsStop(pos, c) ==
    IF pos.side = "LONG" THEN c.low <= pos.stop ELSE c.high >= pos.stop

\* the management branch of the bar loop, up to the decision to exit:
\* the position after the bar, the exit price (0 when none) and the reason
TickerManage(pos, c, isLast) ==
    LET p1 == IF pos.side = "LONG"
              THEN [pos EXCEPT !.maxPrice = Max2(@, c.high)]
              ELSE [pos EXCEPT !.minPrice = Min2(@, c.low)]
        p2 == IF ~p1.scaledOut /\ TickerHitsTarget(p1, c) THEN TickerScaleOut(p1) ELSE p1
        stopped == TickerHitsStop(p2, c)
        x1 == IF stopped THEN p2.stop ELSE 0
        r1 == IF stopped THEN (IF p2.scaledOut THEN "TRAIL_STOP" ELSE "STOP") ELSE ""
        eod == x1 = 0 /\ isLast
    IN  [position |-> p2,
         exitPrice |-> IF eod THEN c.close ELSE x1,
         reason |-> IF eod THEN "EOD" ELSE r1]

\* a closed trade whose remainder is always the whole position
TickerTradeWholeRemainder(pos, c, exitPrice, reason) ==
    LET finalPnl == (IF pos.side = "LONG" THEN exitPrice - pos.entryPrice
                     ELSE pos.entryPrice - exitPrice) * 2
        totalPnl == pos.pnlAcc + finalPnl
    IN  [symbol |-> 1, side |-> pos.side, entryTime |-> pos.entryTime,
         exitTime |-> c.date, entryPrice |-> pos.entryPrice,
         exitPrice |-> exitPrice, pnl |-> totalPnl,
         returnPercent |-> ReturnPercent(totalPnl, pos.entryPrice),
         reason |-> reason]

\* the closed trade pushed to the ledger
TickerTrade(pos, c, exitPrice, reason) ==
    LET remainingQty == IF pos.scaledOut THEN 1 ELSE 2
        finalPnl == (IF pos.side = "LONG" THEN exitPrice - pos.entryPrice
                     ELSE pos.entryPrice - exitPrice) * remainingQty
        totalPnl == pos.pnlAcc + finalPnl
    IN  [symbol |-> 1, side |-> pos.side, entryTime |-> pos.entryTime,
         exitTime |-> c.date, entryPrice |-> pos.entryPrice,
         exitPrice |-> exitPrice, pnl |-> totalPnl,
         returnPercent |-> ReturnPercent(totalPnl, pos.entryPrice),
         reason |-> reason]

\* the bar loop goes on after a trade, free to enter again
TickerAfterTradeReenter(day, n, isLast, pos) ==
    IF isLast THEN [pc |-> "day", d |-> day + 1, i |-> n, position |-> pos]
    ELSE [pc |-> "bar", d |-> day, i |-> n + 1, position |-> None]

\* after a trade is pushed the bar loop is left (break): the next session
TickerAfterTrade(day, n, isLast, pos) ==
    [pc |-> "day", d |-> day + 1, i |-> n, position |-> pos]

IdleLocals ==
    /\ days = <<>> /\ d = 0 /\ sym = 0 /\ prevClose = 0 /\ i = 0
    /\ range = None /\ position = None /\ signal = None
    /\ dailySignals = <<>> /\ top5 = <<>> /\ k = 0 /\ trades = <<>>
    /\ botState = None /\ state = None /\ today = 1 /\ result = <<>>
    /\ run = None

Idle == params = None /\ IdleLocals

InitTicker ==
    /\ site = "testTicker"
    /\ data \in SessionData
    /\ pc = "fetch"
    /\ Idle

\* fetchIntradayData, the empty-data return and the grouping into days
TickerFetch ==
    /\ site = "testTicker" /\ pc = "fetch"
    /\ days' = GroupByDay(data)
    /\ pc' = IF Len(data) = 0 THEN "done" ELSE "day"
    /\ d' = 1
    /\ UNCHANGED <<site, data, params, sym, prevClose, i, range, position, signal,
                   dailySignals, top5, k, trades, botVars, result>>

\* one pass of the loop over days, up to the bar loop
TickerStartDay ==
    /\ site = "testTicker" /\ pc = "day" /\ d <= Len(days)
    /\ LET candles == days[d]
           isGap == TickerIsGap(candles, prevClose)
           newPrev == Last(candles).close
           rng == OpeningRange(candles, OpeningRangeSize)
           skip == \/ ~isGap /\ newPrev > 0
                   \/ TickerTooShort(candles)
                   \/ candles[1].close < 500
                   \/ RangeRejected(rng, 5, 120)
       IN  /\ prevClose' = newPrev
           /\ range' = IF (~isGap /\ newPrev > 0) \/ TickerTooShort(candles)
                       THEN None ELSE rng
           /\ position' = None
           /\ IF skip THEN /\ d' = d + 1
                           /\ UNCHANGED <<pc, i>>
              ELSE /\ pc' = "bar"
                   /\ i' = OpeningRangeSize + 1
                   /\ d' = d
    /\ UNCHANGED <<site, data, params, days, sym, signal, dailySignals, top5, k,
                   trades, botVars, result>>

\* one pass of the bar loop
TickerBar ==
    /\ site = "testTicker" /\ pc = "bar"
    /\ LET candles == days[d]
           c == candles[i]
           isLast == i = Len(candles)
       IN  IF position = None THEN
               /\ position' = TickerEntry(c, range)
               /\ trades' = trades
               /\ IF isLast THEN pc' = "day" /\ d' = d + 1 /\ i' = i
                  ELSE i' = i + 1 /\ UNCHANGED <<pc, d>>
           ELSE
               LET m == TickerManage(position, c, isLast)
                   after == TickerAfterTrade(d, i, isLast, m.position)
               IN  IF m.exitPrice # 0 THEN
                       /\ trades' = Append(trades,
                              TickerTrade(m.position, c, m.exitPrice, m.reason))
                       /\ position' = after.position
                       /\ pc' = after.pc /\ d' = after.d /\ i' = after.i
                   ELSE
                       /\ position' = m.position
                       /\ trades' = trades
                       /\ IF isLast THEN pc' = "day" /\ d' = d + 1 /\ i' = i
                          ELSE i' = i + 1 /\ UNCHANGED <<pc, d>>
    /\ UNCHANGED <<site, data, params, days, sym, prevClose, range, signal,
                   dailySignals, top5, k, botVars, result>>

\* return trades
TickerReturn ==
    /\ site = "testTicker" /\ pc = "day" /\ d > Len(days)
    /\ pc' = "done"
    /\ UNCHANGED <<site, data, params, days, d, sym, prevClose, i, range, position,
                   signal, dailySignals, top5, k, trades, botVars, result>>

NextTicker == TickerFetch \/ TickerStartDay \/ TickerBar \/ TickerReturn

SpecTicker == InitTicker /\ [][NextTicker]_vars


----------------------------------------------------------------------------
(* runPortfolioBacktest, checkSignal, simulateTrade: src/src/tools/getPortfolio.ts *)

TopK == 5

\* the index (0-based, as in the source) of the first candle from index 6 on
\* that passes the volume filter and leaves the range; -1 when there is none
RECURSIVE TriggerIndex(_, _, _)
TriggerIndex(candles, rng, n) ==
    IF n >= Len(candles) THEN -1
    ELSE LET c == candles[n + 1]
             thin == c.volume > 0 /\ c.volume * rng.avgVol.den * 10 < rng.avgVol.num * 8
         IN  IF ~thin /\ (c.high > rng.high \/ c.low < rng.low) THEN n
             ELSE TriggerIndex(candles, rng, n + 1)

\* a floor of six candles instead of seven
SignalTooShortBySix(candles) == Len(candles) < OpeningRangeSize

\* if (candles.length < 7) return null
SignalTooShort(candles) == Len(candles) < OpeningRangeSize + 1

\* if (gapPct < 0.002) return null
\* a gap test at 0.05%
SignalNoGapAtTwentieth(candles, prev) == RatLt(GapPct(candles[1].open, prev), Rat(5, 10000))

SignalNoGap(candles, prev) == RatLt(GapPct(candles[1].open, prev), Rat(2, 1000))

\* the signal built at the trigger candle
SignalAt(symbol, candles, rng, t) ==
    LET c == candles[t + 1]
        rv == IF rng.avgVol.num > 0
              THEN Rat(c.volume * rng.avgVol.den, rng.avgVol.num) ELSE Rat(0, 1)
    IN  IF c.high > rng.high THEN
            [symbol |-> symbol, side |-> "LONG", entryPrice |-> rng.high,
             stop |-> rng.low, target1 |-> rng.high + rng.height,
             rangeHeight |-> rng.height, relVol |-> rv,
             candles |-> SubSeq(candles, t + 1, Len(candles))]
        ELSE
            [symbol |-> symbol, side |-> "SHORT", entryPrice |-> rng.low,
             stop |-> rng.high, target1 |-> rng.low - rng.height,
             rangeHeight |-> rng.height, relVol |-> rv,
             candles |-> SubSeq(candles, t + 1, Len(candles))]

\* checkSignal: the opening range it computed (None when it returned before)
\* and the signal it returned (None for null)
checkSignal(symbol, candles, prev) ==
    IF SignalTooShort(candles) THEN [range |-> None, signal |-> None]
    ELSE LET rng == OpeningRange(candles, OpeningRangeSize)
             t == TriggerIndex(candles, rng, OpeningRangeSize)
         IN  [range |-> rng,
              signal |->
                 IF \/ candles[1].close < 500
                    \/ SignalNoGap(candles, prev)
                    \/ RangeRejected(rng, 5, 120)
                    \/ t = -1
                 THEN None
                 ELSE SignalAt(symbol, candles, rng, t)]

\* simulateTrade's position at its start
SimInit(sig) ==
    [side |-> sig.side, entryPrice |-> sig.entryPrice, stop |-> sig.stop,
     target1 |-> sig.target1, scaledOut |-> FALSE, pnlAcc |-> 0]

\* a scale-out that books the whole move to target1 instead of half of it
SimScaleOutWholeLeg(pos) ==
    [pos EXCEPT !.pnlAcc = @ + 2 * (IF pos.side = "LONG"
                                    THEN pos.target1 - pos.entryPrice
                                    ELSE pos.entryPrice - pos.target1),
                !.stop = pos.entryPrice,
                !.scaledOut = TRUE]

SimScaleOut(pos) ==
    [pos EXCEPT !.pnlAcc = @ + (IF pos.side = "LONG"
                                THEN pos.target1 - pos.entryPrice
                                ELSE pos.entryPrice - pos.target1),
                !.stop = pos.entryPrice,
                !.scaledOut = TRUE]

SimHitsTarget(pos, c) ==
    IF pos.side = "LONG" THEN c.high >= pos.target1 ELSE c.low <= pos.target1

SimHitsStop(pos, c) ==
    IF pos.side = "LONG" THEN c.low <= pos.stop ELSE c.high >= pos.stop

\* the loop pass with the stop looked at before the target
SimBarStopFirst(pos, c, isLast) ==
    LET stopped == SimHitsStop(pos, c)
        p2 == IF ~stopped /\ ~pos.scaledOut /\ SimHitsTarget(pos, c)
              THEN SimScaleOut(pos) ELSE pos
    IN  [position |-> p2,
         leave |-> stopped \/ isLast,
         exitPrice |-> IF stopped THEN p2.stop ELSE IF isLast THEN c.close ELSE 0,
         reason |-> IF stopped THEN (IF p2.scaledOut THEN "TRAIL_STOP" ELSE "STOP")
                    ELSE IF isLast THEN "EOD" ELSE ""]

\* one pass of simulateTrade's loop: the position after the bar, whether the
\* loop is left (break, or the last candle), the exit price and the reason
SimBar(pos, c, isLast) ==
    LET p2 == IF ~pos.scaledOut /\ SimHitsTarget(pos, c) THEN SimScaleOut(pos) ELSE pos
        stopped == SimHitsStop(p2, c)
    IN  [position |-> p2,
         leave |-> stopped \/ isLast,
         exitPrice |-> IF stopped THEN p2.stop ELSE IF isLast THEN c.close ELSE 0,
         reason |-> IF stopped THEN (IF p2.scaledOut THEN "TRAIL_STOP" ELSE "STOP")
                    ELSE IF isLast THEN "EOD" ELSE ""]

\* the trade returned after the loop
SimTrade(sig, pos, exitPrice, reason) ==
    LET remainingQty == IF pos.scaledOut THEN 1 ELSE 2
        finalPnl == (IF sig.side = "LONG" THEN exitPrice - sig.entryPrice
                     ELSE sig.entryPrice - exitPrice) * remainingQty
        totalPnl == pos.pnlAcc + finalPnl
    IN  [symbol |-> sig.symbol, entryTime |-> sig.candles[1].date,
         exitTime |-> Last(sig.candles).date, side |-> sig.side,
         entryPrice |-> sig.entryPrice, exitPrice |-> exitPrice,
         pnl |-> totalPnl,
         returnPercent |-> ReturnPercent(totalPnl, sig.entryPrice),
         reason |-> reason, relVol |-> sig.relVol]

\* the signals left in the order of the scan
KeepScanOrder(sigs) == sigs

\* dailySignals.sort((a, b) => b.relVol - a.relVol): stable, descending
RECURSIVE SortByRelVol(_)
SortByRelVol(sigs) ==
    IF sigs = <<>> THEN <<>>
    ELSE LET rest == SortByRelVol(SubSeq(sigs, 1, Len(sigs) - 1))
             x == Last(sigs)
             n == Cardinality({m \in 1..Len(rest) : RatLe(x.relVol, rest[m].relVol)})
         IN  SubSeq(rest, 1, n) \o <<x>> \o SubSeq(rest, n + 1, Len(rest))

\* dailySignals.slice(0, 5)
TakeTop(sigs) == Slice(sigs, 0, TopK)

\* the tickers of allData, in Map order
RECURSIVE SetToSeq(_)
SetToSeq(S) ==
    IF S = {} THEN <<>>
    ELSE LET m == CHOOSE x \in S : \A y \in S : x <= y
         IN  <<m>> \o SetToSeq(S \ {m})

\* Array.from(allDates).sort()
SortedDates(allData) ==
    SetToSeq(UNION {{DayOf(allData[s][n][1]) : n \in 1..Len(allData[s])} :
                    s \in DOMAIN allData})

\* the sessions of one ticker sorted by date, and the place of a date in them
TickerDates(daysMap) == SetToSeq({DayOf(daysMap[n][1]) : n \in 1..Len(daysMap)})

SessionOf(daysMap, date) ==
    daysMap[CHOOSE n \in 1..Len(daysMap) : DayOf(daysMap[n][1]) = date]

\* the scan of one ticker on one date: None when the ticker is skipped
ScanTicker(symbol, daysMap, date) ==
    IF date \notin {DayOf(daysMap[n][1]) : n \in 1..Len(daysMap)}
    THEN [range |-> None, signal |-> None]
    ELSE LET sorted == TickerDates(daysMap)
             dayIdx == CHOOSE n \in 1..Len(sorted) : sorted[n] = date
         IN  IF dayIdx <= 1 THEN [range |-> None, signal |-> None]
             ELSE checkSignal(symbol, SessionOf(daysMap, date),
                              Last(SessionOf(daysMap, sorted[dayIdx - 1])).close)


\* one ticker with every session of SessionData
SingleData == {[s \in {1} |-> x] : x \in SessionData}

\* NSyms tickers on one date, each with one candle after the window
RankedSessions ==
    {PrevDay(10000, 2) \o Dated(WScenario \o <<x>>, 3) : x \in {Up, UpThin, Outside, Quiet}}

RankedData == [1..NSyms -> RankedSessions]

InitPortfolio ==
    /\ site = "runPortfolioBacktest"
    /\ data \in SingleData \cup RankedData
    /\ pc = "fetch"
    /\ Idle

\* 1. fetch all data, 2. identify all unique dates
PortfolioFetch ==
    /\ site = "runPortfolioBacktest" /\ pc = "fetch"
    /\ days' = [s \in {x \in DOMAIN data : Len(data[x]) > 0} |-> GroupByDay(data[s])]
    /\ d' = 1 /\ sym' = 1
    /\ pc' = "scan"
    /\ UNCHANGED <<site, data, params, prevClose, i, range, position, signal,
                   dailySignals, top5, k, trades, botVars, result>>

\* 3. one ticker of the current date checked for a signal
PortfolioScan ==
    /\ site = "runPortfolioBacktest" /\ pc = "scan"
    /\ d <= Len(SortedDates(days))
    /\ sym <= Len(SetToSeq(DOMAIN days))
    /\ LET s == SetToSeq(DOMAIN days)[sym]
           r == ScanTicker(s, days[s], SortedDates(days)[d])
       IN  /\ range' = r.range
           /\ signal' = r.signal
           /\ dailySignals' = IF r.signal # None THEN Append(dailySignals, r.signal)
                              ELSE dailySignals
    /\ sym' = sym + 1
    /\ UNCHANGED <<site, data, params, pc, days, d, prevClose, i, position,
                   top5, k, trades, botVars, result>>

\* rank by relVol, take the top 5
PortfolioRank ==
    /\ site = "runPortfolioBacktest" /\ pc = "scan"
    /\ d <= Len(SortedDates(days))
    /\ sym > Len(SetToSeq(DOMAIN days))
    /\ top5' = TakeTop(SortByRelVol(dailySignals))
    /\ k' = 1 /\ i' = 1
    /\ pc' = "simulate"
    /\ UNCHANGED <<site, data, params, days, d, sym, prevClose, range, position,
                   signal, dailySignals, trades, botVars, result>>

\* one pass of the loop of simulateTrade(top5[k]); on the pass that leaves
\* the loop the trade is returned and pushed
PortfolioSimulate ==
    /\ site = "runPortfolioBacktest" /\ pc = "simulate"
    /\ k <= Len(top5)
    /\ LET sig == top5[k]
           pos == IF i = 1 THEN SimInit(sig) ELSE position
           m == SimBar(pos, sig.candles[i], i = Len(sig.candles))
       IN  /\ position' = m.position
           /\ signal' = sig
           /\ IF m.leave THEN
                  /\ trades' = IF m.exitPrice # 0
                               THEN Append(trades, SimTrade(sig, m.position, m.exitPrice, m.reason))
                               ELSE trades
                  /\ k' = k + 1
                  /\ i' = 1
              ELSE
                  /\ i' = i + 1
                  /\ UNCHANGED <<k, trades>>
    /\ UNCHANGED <<site, data, params, pc, days, d, sym, prevClose, range,
                   dailySignals, top5, botVars, result>>

\* the next date
PortfolioNextDate ==
    /\ site = "runPortfolioBacktest" /\ pc = "simulate"
    /\ k > Len(top5)
    /\ d' = d + 1 /\ sym' = 1
    /\ dailySignals' = <<>>
    /\ pc' = "scan"
    /\ UNCHANGED <<site, data, params, days, prevClose, i, range, position,
                   signal, top5, k, trades, botVars, result>>

\* 4. report
PortfolioReport ==
    /\ site = "runPortfolioBacktest" /\ pc = "scan"
    /\ d > Len(SortedDates(days))
    /\ pc' = "done"
    /\ UNCHANGED <<site, data, params, days, d, sym, prevClose, i, range,
                   position, signal, dailySignals, top5, k, trades, botVars, result>>

NextPortfolio ==
    \/ PortfolioFetch \/ PortfolioScan \/ PortfolioRank
    \/ PortfolioSimulate \/ PortfolioNextDate \/ PortfolioReport

SpecPortfolio == InitPortfolio /\ [][NextPortfolio]_vars


----------------------------------------------------------------------------
(* backtestIntraday, backtestDay: src/unnamed/part_007 *)

\* ORBParams: run_intraday.ts sweeps rangeMinutes and profitTargetR
ParamSet ==
    {[rangeMinutes |-> 6, profitTargetR |-> 1, maxHoldMinutes |-> 60],
     [rangeMinutes |-> 6, profitTargetR |-> 2, maxHoldMinutes |-> 2],
     [rangeMinutes |-> 5, profitTargetR |-> 2, maxHoldMinutes |-> 1]}

\* if (dailyData.length < params.rangeMinutes + 1) return null
DayTooShort(dailyData, prm) == Len(dailyData) < prm.rangeMinutes + 1

\* the breakout branch of the bar loop: long only, one cent of slippage
DayEntry(candle, rng, prm) ==
    IF candle.high > rng.high THEN
        [side |-> "LONG", entryPrice |-> rng.high + 1, entryTime |-> candle.date,
         stopPrice |-> rng.low,
         targetPrice |-> rng.high + 1 + rng.height * prm.profitTargetR,
         quantity |-> 100]
    ELSE None

IntradayTrade(pos, candle, exitPrice, reason) ==
    [symbol |-> 1, entryTime |-> pos.entryTime, exitTime |-> candle.date,
     side |-> pos.side, entryPrice |-> pos.entryPrice, exitPrice |-> exitPrice,
     quantity |-> pos.quantity,
     pnl |-> (exitPrice - pos.entryPrice) * pos.quantity,
     pnlPercent |-> Rat((exitPrice - pos.entryPrice) * 100, pos.entryPrice),
     reason |-> reason, maxRunup |-> 0, maxDrawdown |-> 0]

\* the management branch of the bar loop: the trade returned, or None;
\* n is the 0-based index of the candle
DayManage(pos, candle, n, prm) ==
    IF candle.low <= pos.stopPrice
    THEN IntradayTrade(pos, candle, pos.stopPrice, "STOP_LOSS")
    ELSE IF candle.high >= pos.targetPrice
    THEN IntradayTrade(pos, candle, pos.targetPrice, "TARGET_HIT")
    ELSE IF n >= prm.rangeMinutes + prm.maxHoldMinutes
    THEN IntradayTrade(pos, candle, candle.close, "TIME_EXIT")
    ELSE None

InitIntraday ==
    /\ site = "backtestIntraday"
    /\ data \in SessionData
    /\ pc = "group"
    /\ params \in ParamSet
    /\ IdleLocals

\* groupCandlesByDay
IntradayGroup ==
    /\ site = "backtestIntraday" /\ pc = "group"
    /\ days' = GroupByDay(data)
    /\ d' = 1
    /\ pc' = "day"
    /\ UNCHANGED <<site, data, params, sym, prevClose, i, range, position, signal,
                   dailySignals, top5, k, trades, botVars, result>>

\* backtestDay up to its bar loop
IntradayStartDay ==
    /\ site = "backtestIntraday" /\ pc = "day" /\ d <= Len(days)
    /\ LET dailyData == days[d]
           rng == OpeningRange(dailyData, params.rangeMinutes)
       IN  /\ position' = None
           /\ IF DayTooShort(dailyData, params) THEN
                  /\ range' = None
                  /\ d' = d + 1
                  /\ UNCHANGED <<pc, i>>
              ELSE IF rng.height = 0 THEN
                  /\ range' = rng
                  /\ d' = d + 1
                  /\ UNCHANGED <<pc, i>>
              ELSE
                  /\ range' = rng
                  /\ pc' = "bar"
                  /\ i' = params.rangeMinutes + 1
                  /\ d' = d
    /\ UNCHANGED <<site, data, params, days, sym, prevClose, signal, dailySignals,
                   top5, k, trades, botVars, result>>

\* one pass of backtestDay's bar loop; after the last candle, the EOD exit
IntradayBar ==
    /\ site = "backtestIntraday" /\ pc = "bar"
    /\ LET dailyData == days[d]
           candle == dailyData[i]
           isLast == i = Len(dailyData)
           entered == IF position = None THEN DayEntry(candle, range, params) ELSE position
           t == IF position = None THEN None ELSE DayManage(position, candle, i - 1, params)
       IN  /\ position' = entered
           /\ IF t # None THEN
                  /\ trades' = Append(trades, t)
                  /\ pc' = "day" /\ d' = d + 1 /\ i' = i
              ELSE IF isLast THEN
                  /\ trades' = IF entered # None
                               THEN Append(trades,
                                      IntradayTrade(entered, candle, candle.close, "EOD_EXIT"))
                               ELSE trades
                  /\ pc' = "day" /\ d' = d + 1 /\ i' = i
              ELSE
                  /\ i' = i + 1
                  /\ UNCHANGED <<pc, d, trades>>
    /\ UNCHANGED <<site, data, params, days, sym, prevClose, range, signal,
                   dailySignals, top5, k, botVars, result>>

\* return trades
IntradayReturn ==
    /\ site = "backtestIntraday" /\ pc = "day" /\ d > Len(days)
    /\ pc' = "done"
    /\ UNCHANGED <<site, data, params, days, d, sym, prevClose, i, range, position,
                   signal, dailySignals, top5, k, trades, botVars, result>>

NextIntraday == IntradayGroup \/ IntradayStartDay \/ IntradayBar \/ IntradayReturn

SpecIntraday == InitIntraday /\ [][NextIntraday]_vars


----------------------------------------------------------------------------
(* The live trade bot: src/src/trade_bot.ts *)

BotTickers == <<1, 2>>

\* AMOUNT_PER_TRADE = PORTFOLIO_VALUE * MAX_POS_PCT, in cents
AmountPerTrade == 100000 * 24

\* candles as fetchIntradayData(symbol, '5d', '5m') may return them
BotData ==
    {p \o Dated(w \o t, 3) :
        p \in {<<>>, PrevDay(10100, 2), PrevDay(10060, 2), PrevDay(10000, 2)},
        w \in {WScenario, WMid, WPenny}, t \in TailsUpTo({Up, UpThin, Down}, 1)}
    \cup {PrevDay(10000, 2) \o Dated(WScenario \o <<Reverse>>, 3)}
    \cup {p \o Dated(SubSeq(WScenario, 1, n), 3) :
            p \in {<<>>, PrevDay(10000, 2), PrevDay(10000, 1) \o FullDay(2)},
            n \in {0, 5, 6}}
    \cup {Dated(WScenario \o <<Quiet, Quiet, Quiet, x>>, 3) : x \in {Up, Down}}

\* the last close fetchIntradayData(symbol, '1d') may return; 0 stands for no data
BotPrices == {0, 9800, 10000, 10100, 10200, 10400}

\* the candles split into runs of one calendar date, in the order of the data
RECURSIVE GroupRuns(_)
GroupRuns(cs) ==
    IF cs = <<>> THEN <<>>
    ELSE LET acc == GroupRuns(SubSeq(cs, 1, Len(cs) - 1))
             c == Last(cs)
         IN  IF acc # <<>> /\ DayOf(Last(acc)[1]) = DayOf(c)
             THEN [acc EXCEPT ![Len(acc)] = Append(@, c)]
             ELSE Append(acc, <<c>>)

\* a state file whose content JSON.parse rejects
Corrupt == [corrupt |-> TRUE]

FreshState(date) == [date |-> date, positions |-> <<>>, executed_trades |-> 0]

\* loadState without the date test
loadStateAnyDate(file, date) ==
    IF file # None THEN file ELSE FreshState(date)

loadState(file, date) ==
    IF file # None /\ file.date = date THEN file ELSE FreshState(date)

\* if (today.length < 7) return
SetupTooShort(session) == Len(session) < OpeningRangeSize + 1

\* if (prevClose > 0) { if (gapPct < 0.005) return }
SetupNoGap(session, prev) ==
    prev > 0 /\ RatLt(GapPct(session[1].open, prev), Rat(5, 1000))

triggerTrade(symbol, side, entryPrice, stopLoss, st, date) ==
    LET rangeHeight == Abs(entryPrice - stopLoss)
        quantity == AmountPerTrade \div entryPrice
        pos == [symbol |-> symbol, side |-> side, entryPrice |-> entryPrice,
                quantity |-> quantity, initialQty |-> quantity,
                stopLoss |-> stopLoss,
                target1 |-> IF side = "LONG" THEN entryPrice + rangeHeight
                            ELSE entryPrice - rangeHeight,
                timestamp |-> date, status |-> "OPEN", scaledOut |-> FALSE,
                pnl |-> None, rangeHeight |-> rangeHeight]
    IN  [st EXCEPT !.positions = Append(@, pos), !.executed_trades = @ + 1]

\* checkSetup: the opening range it computed (None when it returned before)
\* and the state it leaves
checkSetup(symbol, cs, st, date) ==
    IF Len(cs) < 10 THEN [range |-> None, state |-> st]
    ELSE LET runs == GroupRuns(cs)
             session == Last(runs)
             prevDay == IF Len(runs) > 1 THEN runs[Len(runs) - 1] ELSE <<>>
             prev == IF prevDay # <<>> THEN Last(prevDay).close ELSE 0
         IN  IF SetupTooShort(session) THEN [range |-> None, state |-> st]
             ELSE LET rng == OpeningRange(session, OpeningRangeSize)
                      currentCandle == Last(session)
                      price == currentCandle.close
                      reject == \/ price < 500
                                \/ SetupNoGap(session, prev)
                                \/ RangeRejected(rng, 5, 40)
                                \/ currentCandle.volume * rng.avgVol.den * 10
                                       < rng.avgVol.num * 12
                  IN  [range |-> rng,
                       state |->
                          IF reject THEN st
                          ELSE IF price > rng.high
                          THEN triggerTrade(symbol, "LONG", rng.high, rng.low, st, date)
                          ELSE IF price < rng.low
                          THEN triggerTrade(symbol, "SHORT", rng.low, rng.high, st, date)
                          ELSE st]

\* the scale-out step of checkPosition
BotScaleOut(pos) ==
    [pos EXCEPT !.quantity = @ \div 2,
                !.stopLoss = pos.entryPrice,
                !.scaledOut = TRUE]

\* checkPosition on a fetched price: the position as it is left
checkPosition(pos, currentPrice) ==
    LET hitsTarget == IF pos.side = "LONG" THEN currentPrice >= pos.target1
                      ELSE currentPrice <= pos.target1
        p2 == IF ~pos.scaledOut /\ hitsTarget THEN BotScaleOut(pos) ELSE pos
        hitsStop == IF pos.side = "LONG" THEN currentPrice <= p2.stopLoss
                    ELSE currentPrice >= p2.stopLoss
    IN  IF hitsStop
        THEN [p2 EXCEPT !.status = "CLOSED",
                        !.pnl = IF pos.side = "LONG" THEN p2.stopLoss - p2.entryPrice
                                ELSE p2.entryPrice - p2.stopLoss]
        ELSE p2

\* a find that sees OPEN positions only, whatever status is asked for
FindOpenPosition(st, symbol, status) ==
    LET hit == {n \in 1..Len(st.positions) :
                  st.positions[n].symbol = symbol /\ st.positions[n].status = "OPEN"
                  /\ status = "OPEN"}
    IN  IF hit = {} THEN 0 ELSE CHOOSE n \in hit : \A m \in hit : n <= m

\* state.positions.find(p => p.symbol === sym && p.status === status): its
\* index, 0 when there is none
FindPosition(st, symbol, status) ==
    LET hit == {n \in 1..Len(st.positions) :
                  st.positions[n].symbol = symbol /\ st.positions[n].status = status}
    IN  IF hit = {} THEN 0 ELSE CHOOSE n \in hit : \A m \in hit : n <= m

InitBot ==
    /\ site = "runTradeBot"
    /\ data = <<>>
    /\ pc = "idle"
    /\ Idle

\* the start of a run: loadState
BotLoad ==
    /\ site = "runTradeBot" /\ pc = "idle"
    /\ botState # Corrupt
    /\ state' = loadState(botState, today)
    /\ sym' = 1
    /\ pc' = "loop"
    /\ data' = <<>> /\ range' = None
    /\ UNCHANGED <<site, params, days, d, prevClose, i, position, signal,
                   dailySignals, top5, k, trades, botState, today, result, run>>

\* a ticker with an OPEN position: checkPosition on the price fetched
BotCheckPosition ==
    /\ site = "runTradeBot" /\ pc = "loop" /\ sym <= Len(BotTickers)
    /\ FindPosition(state, BotTickers[sym], "OPEN") # 0
    /\ \E currentPrice \in BotPrices :
          LET n == FindPosition(state, BotTickers[sym], "OPEN")
          IN  state' = IF currentPrice = 0 THEN state
                       ELSE [state EXCEPT !.positions[n] = checkPosition(@, currentPrice)]
    /\ sym' = sym + 1
    /\ data' = <<>> /\ range' = None
    /\ UNCHANGED <<site, params, pc, days, d, prevClose, i, position, signal,
                   dailySignals, top5, k, trades, botState, today, result, run>>

\* a ticker closed earlier today is not traded again
BotSkipClosed ==
    /\ site = "runTradeBot" /\ pc = "loop" /\ sym <= Len(BotTickers)
    /\ FindPosition(state, BotTickers[sym], "OPEN") = 0
    /\ FindPosition(state, BotTickers[sym], "CLOSED") # 0
    /\ sym' = sym + 1
    /\ data' = <<>> /\ range' = None
    /\ UNCHANGED <<site, params, pc, days, d, prevClose, i, position, signal,
                   dailySignals, top5, k, trades, botVars, result>>

\* a ticker with no position: checkSetup on the candles fetched
BotCheckSetup ==
    /\ site = "runTradeBot" /\ pc = "loop" /\ sym <= Len(BotTickers)
    /\ FindPosition(state, BotTickers[sym], "OPEN") = 0
    /\ FindPosition(state, BotTickers[sym], "CLOSED") = 0
    /\ \E cs \in BotData :
          LET r == checkSetup(BotTickers[sym], cs, state, today)
          IN  /\ data' = cs
              /\ range' = r.range
              /\ state' = r.state
    /\ sym' = sym + 1
    /\ UNCHANGED <<site, params, pc, days, d, prevClose, i, position, signal,
                   dailySignals, top5, k, trades, botState, today, result, run>>

\* the end of a run: saveState
BotSave ==
    /\ site = "runTradeBot" /\ pc = "loop" /\ sym > Len(BotTickers)
    /\ botState' = state
    /\ pc' = "idle"
    /\ data' = <<>> /\ range' = None
    /\ UNCHANGED <<site, params, days, d, sym, prevClose, i, position, signal,
                   dailySignals, top5, k, trades, state, today, result, run>>

\* the date changes between two runs
BotNewDay ==
    /\ site = "runTradeBot" /\ pc = "idle" /\ today < MaxDays
    /\ today' = today + 1
    /\ UNCHANGED <<site, data, params, pc, days, d, sym, prevClose, i, range,
                   position, signal, dailySignals, top5, k, trades, botState,
                   state, result, run>>

\* the state file is damaged between two runs
BotFileCorrupted ==
    /\ site = "runTradeBot" /\ pc = "idle"
    /\ botState \notin {None, Corrupt}
    /\ botState' = Corrupt
    /\ UNCHANGED <<site, data, params, pc, days, d, sym, prevClose, i, range,
                   position, signal, dailySignals, top5, k, trades, state, today,
                   result, run>>

\* the start of a run on a damaged file: JSON.parse throws in loadState,
\* nothing catches it, and the promise of runTradeBot rejects
BotLoadRaises ==
    /\ site = "runTradeBot" /\ pc = "idle"
    /\ botState = Corrupt
    /\ pc' = "raised"
    /\ state' = None
    /\ UNCHANGED <<site, data, params, days, d, sym, prevClose, i, range,
                   position, signal, dailySignals, top5, k, trades, botState, today,
                   result, run>>

NextBot ==
    \/ BotLoad \/ BotCheckPosition \/ BotSkipClosed \/ BotCheckSetup
    \/ BotSave \/ BotNewDay \/ BotFileCorrupted \/ BotLoadRaises

SpecBot == InitBot /\ [][NextBot]_vars


----------------------------------------------------------------------------
(* The inverse bot's signal detection: src/src/lose_bot.ts *)

\* if (!today || today.length < 7) return null
InvertedTooShort(session) == session = <<>> \/ Len(session) < OpeningRangeSize + 1

\* if (prevClose > 0) { if (gapPct < 0.002) return null }
InvertedNoGap(session, prev) ==
    prev > 0 /\ RatLt(GapPct(session[1].open, prev), Rat(2, 1000))

\* detectInvertedSignal: the opening range it computed (None when it
\* returned before) and the signal it returned (None for null)
detectInvertedSignal(symbol, cs) ==
    IF Len(cs) < 10 THEN [range |-> None, signal |-> None]
    ELSE LET runs == GroupRuns(cs)
             session == Last(runs)
             prevDay == IF Len(runs) > 1 THEN runs[Len(runs) - 1] ELSE <<>>
             prev == IF prevDay # <<>> THEN Last(prevDay).close ELSE 0
         IN  IF InvertedTooShort(session) THEN [range |-> None, signal |-> None]
             ELSE LET rng == OpeningRange(session, OpeningRangeSize)
                      currentCandle == Last(session)
                      price == currentCandle.close
                      relVol == IF rng.avgVol.num > 0
                                THEN Rat(currentCandle.volume * rng.avgVol.den, rng.avgVol.num)
                                ELSE Rat(0, 1)
                  IN  [range |-> rng,
                       signal |->
                          IF \/ price < 500
                             \/ InvertedNoGap(session, prev)
                             \/ RangeRejected(rng, 5, 120)
                          THEN None
                          ELSE IF price < rng.low
                          THEN [symbol |-> symbol, reason |-> "Falling Knife",
                                price |-> price, conviction |-> relVol]
                          ELSE IF price > rng.high
                          THEN [symbol |-> symbol, reason |-> "Buying the Top",
                                price |-> price, conviction |-> relVol]
                          ELSE None]

\* detectInvertedSignal on its own, on any candles fetched
InitDetect ==
    /\ site = "detectInvertedSignal"
    /\ data = <<>>
    /\ pc = "scan"
    /\ Idle

DetectInverted ==
    /\ site = "detectInvertedSignal" /\ pc = "scan"
    /\ \E cs \in BotData \cup FilterCases :
          LET r == detectInvertedSignal(1, cs)
          IN  /\ data' = cs
              /\ range' = r.range
              /\ signal' = r.signal
    /\ UNCHANGED <<site, params, pc, days, d, sym, prevClose, i, position,
                   dailySignals, top5, k, trades, botVars, result>>

----------------------------------------------------------------------------
(* The inverse bot's run: src/src/lose_bot.ts *)

\* the tickers of the universe scanned by the lose bot
LoseTickers == 1..NSyms

\* candles as fetchIntradayData(symbol, '5d', '5m') may return them: the
\* first ticker draws from every case, the others break down or stay quiet
LoseData(symbol) ==
    IF symbol = 1
    THEN {p \o Dated(WScenario \o t, 3) :
            p \in {PrevDay(10100, 2), PrevDay(10000, 2)}, t \in {<<>>, <<Up>>, <<Down>>}}
         \cup {PrevDay(10000, 2) \o Dated(SubSeq(WScenario, 1, 5), 3)}
    ELSE IF symbol = 2
    THEN {PrevDay(10000, 2) \o Dated(WScenario \o <<x>>, 3) : x \in {Down, Quiet}}
    ELSE {PrevDay(10000, 2) \o Dated(WScenario \o <<Down>>, 3)}

\* what getPortfolio may return (cash in cents); None when it throws
LosePortfolios ==
    {[cashBalance |-> c, buyingPower |-> 10000000, positions |-> ps] :
        c \in {5000, 10000000}, ps \in {{}, {2}}} \cup {None}

\* lose_state.json as earlier runs may have left it: absent, unreadable, or
\* holding one trade of ticker 3 made on the given date
LoseFiles(date) ==
    {None, Corrupt} \cup
    {[date |-> dt,
      executedTrades |-> <<[symbol |-> 3, quantity |-> 250, price |-> 9980,
                            reason |-> "Falling Knife", timestamp |-> dt]>>,
      heldSymbols |-> <<3>>,
      totalSpent |-> 250 * 9980] : dt \in {date - 1, date}}

LoseFreshState(date) ==
    [date |-> date, executedTrades |-> <<>>, heldSymbols |-> <<>>, totalSpent |-> 0]

\* loadState of the lose bot: a parse error is caught and falls through
LoseLoadState(file, date) ==
    IF file \notin {None, Corrupt} /\ file.date = date THEN file
    ELSE LoseFreshState(date)

MaxTrades == 5

\* Math.max(1, Math.floor(cashAvailable * MAX_ALLOC_PCT / sig.price))
LoseQuantity(cashAvailable, price) == Max2(1, cashAvailable \div (4 * price))

\* signals.sort((a, b) => a.conviction - b.conviction): stable, ascending
RECURSIVE SortByConviction(_)
SortByConviction(sigs) ==
    IF sigs = <<>> THEN <<>>
    ELSE LET m == CHOOSE n \in 1..Len(sigs) :
                     /\ \A j \in 1..Len(sigs) : RatLe(sigs[n].conviction, sigs[j].conviction)
                     /\ \A j \in 1..(n - 1) : RatLt(sigs[n].conviction, sigs[j].conviction)
         IN  <<sigs[m]>> \o
             SortByConviction(SubSeq(sigs, 1, m - 1) \o SubSeq(sigs, m + 1, Len(sigs)))

\* d counts the runs started
InitLose ==
    /\ site = "runLoseBot"
    /\ data = <<>>
    /\ pc = "idle"
    /\ params = None
    /\ days = <<>> /\ d = 0 /\ sym = 0 /\ prevClose = 0 /\ i = 0
    /\ range = None /\ position = None /\ signal = None
    /\ dailySignals = <<>> /\ top5 = <<>> /\ k = 0 /\ trades = <<>>
    /\ today = 1 /\ botState \in LoseFiles(today) /\ state = None
    /\ result = <<>> /\ run = None

\* the start of a run: loadState
LoseLoad ==
    /\ site = "runLoseBot" /\ pc = "idle"
    /\ d < MaxRuns
    /\ d' = d + 1
    /\ state' = LoseLoadState(botState, today)
    /\ run' = None
    /\ pc' = "portfolio"
    /\ data' = <<>> /\ range' = None /\ signal' = None
    /\ UNCHANGED <<site, params, days, sym, prevClose, i, position,
                   dailySignals, top5, k, trades, botState, today, result>>

\* a skip list that forgets what the state file holds
SkipListOfPortfolio(portfolio, st) ==
    IF portfolio = None THEN {} ELSE portfolio.positions

\* the symbols of the portfolio's positions, of state.heldSymbols and of
\* state.executedTrades
SkipList(portfolio, st) ==
    (IF portfolio = None THEN {} ELSE portfolio.positions)
        \cup {st.heldSymbols[n] : n \in 1..Len(st.heldSymbols)}
        \cup {st.executedTrades[n].symbol : n \in 1..Len(st.executedTrades)}

\* 1. the live portfolio, and the skip list built from it and from the state
LosePortfolio ==
    /\ site = "runLoseBot" /\ pc = "portfolio"
    /\ \E portfolio \in LosePortfolios :
          run' = [portfolio |-> portfolio,
                  cashAvailable |-> IF portfolio = None THEN 10000000
                                    ELSE Min2(portfolio.cashBalance, portfolio.buyingPower),
                  heldSymbols |-> SkipList(portfolio, state),
                  signals |-> <<>>, tradesToExecute |-> <<>>,
                  tradesPlaced |-> 0, tradesFailed |-> 0, submitted |-> <<>>]
    /\ sym' = 1
    /\ pc' = "scan"
    /\ UNCHANGED <<site, data, params, days, d, prevClose, i, range, position,
                   signal, dailySignals, top5, k, trades, botState, state, today,
                   result>>

\* 2. a ticker of the skip list is filtered out of its batch
LoseSkipHeld ==
    /\ site = "runLoseBot" /\ pc = "scan" /\ sym \in LoseTickers
    /\ sym \in run.heldSymbols
    /\ sym' = sym + 1
    /\ data' = <<>> /\ range' = None /\ signal' = None
    /\ UNCHANGED <<site, params, pc, days, d, prevClose, i, position,
                   dailySignals, top5, k, trades, botVars, result>>

\* 2. one ticker scanned: detectInvertedSignal on the candles fetched
LoseDetect ==
    /\ site = "runLoseBot" /\ pc = "scan" /\ sym \in LoseTickers
    /\ sym \notin run.heldSymbols
    /\ \E cs \in LoseData(sym) :
          LET r == detectInvertedSignal(sym, cs)
          IN  /\ data' = cs
              /\ range' = r.range
              /\ signal' = r.signal
              /\ run' = IF r.signal = None THEN run
                        ELSE [run EXCEPT !.signals = Append(@, r.signal)]
    /\ sym' = sym + 1
    /\ UNCHANGED <<site, params, pc, days, d, prevClose, i, position,
                   dailySignals, top5, k, trades, botState, state, today, result>>

\* no signal: the state is saved and the run returns
LoseNoSignals ==
    /\ site = "runLoseBot" /\ pc = "scan" /\ sym \notin LoseTickers
    /\ run.signals = <<>>
    /\ botState' = state
    /\ pc' = "idle"
    /\ data' = <<>> /\ range' = None /\ signal' = None
    /\ UNCHANGED <<site, params, days, d, sym, prevClose, i, position,
                   dailySignals, top5, k, trades, state, today, result, run>>

\* 3. sort worst conviction first, 4. take at most MAX_TRADES
LoseRank ==
    /\ site = "runLoseBot" /\ pc = "scan" /\ sym \notin LoseTickers
    /\ run.signals # <<>>
    /\ run' = [run EXCEPT !.signals = SortByConviction(run.signals),
                          !.tradesToExecute =
                              Slice(SortByConviction(run.signals), 0, MaxTrades)]
    /\ k' = 1
    /\ pc' = "execute"
    /\ data' = <<>> /\ range' = None /\ signal' = None
    /\ UNCHANGED <<site, params, days, d, sym, prevClose, i, position,
                   dailySignals, top5, trades, botState, state, today, result>>


\* what executeTrade may do with an order
TradeOutcomes == {"success", "failure", "throws"}

\* the trade recorded for an order that was placed
ExecutedTrade(sig, quantity, date) ==
    [symbol |-> sig.symbol, quantity |-> quantity, price |-> sig.price,
     reason |-> sig.reason, timestamp |-> date]

\* the bookkeeping after result.success
LosePlaced(st, r, sig, quantity, date) ==
    LET cost == quantity * sig.price
    IN  [state |-> [st EXCEPT !.totalSpent = @ + cost,
                              !.executedTrades = Append(@, ExecutedTrade(sig, quantity, date)),
                              !.heldSymbols = Append(@, sig.symbol)],
         run |-> [r EXCEPT !.tradesPlaced = @ + 1,
                           !.cashAvailable = @ - cost,
                           !.heldSymbols = @ \cup {sig.symbol},
                           !.submitted = Append(@, sig.symbol)]]

\* a failed order booked as if it had been placed
LoseNotPlacedButBooked(st, r, sig) ==
    [state |-> [st EXCEPT !.heldSymbols = Append(@, sig.symbol)],
     run |-> [r EXCEPT !.tradesFailed = @ + 1,
                       !.submitted = Append(@, sig.symbol)]]

\* the bookkeeping after result.success = false or a throw
LoseNotPlaced(st, r, sig) ==
    [state |-> st,
     run |-> [r EXCEPT !.tradesFailed = @ + 1,
                       !.submitted = Append(@, sig.symbol)]]

\* 4. one pass of the loop over tradesToExecute
LoseExecute ==
    /\ site = "runLoseBot" /\ pc = "execute"
    /\ k <= Len(run.tradesToExecute)
    /\ \E outcome \in TradeOutcomes :
          LET sig == run.tradesToExecute[k]
              quantity == LoseQuantity(run.cashAvailable, sig.price)
              after == IF outcome = "success"
                       THEN LosePlaced(state, run, sig, quantity, today)
                       ELSE LoseNotPlaced(state, run, sig)
          IN  /\ state' = after.state
              /\ run' = after.run
              /\ k' = IF outcome = "success" /\ after.run.cashAvailable < 50000
                      THEN Len(run.tradesToExecute) + 1
                      ELSE k + 1
    /\ UNCHANGED <<site, data, params, pc, days, d, sym, prevClose, i, range,
                   position, signal, dailySignals, top5, trades, botState, today,
                   result>>

\* the state is saved and the summary is reported
LoseSave ==
    /\ site = "runLoseBot" /\ pc = "execute"
    /\ k > Len(run.tradesToExecute)
    /\ botState' = state
    /\ pc' = "idle"
    /\ UNCHANGED <<site, data, params, days, d, sym, prevClose, i, range,
                   position, signal, dailySignals, top5, k, trades, state, today,
                   result, run>>

NextLose ==
    \/ LoseLoad \/ LosePortfolio \/ LoseSkipHeld \/ LoseDetect \/ LoseNoSignals
    \/ LoseRank \/ LoseExecute \/ LoseSave

SpecLose == InitLose /\ [][NextLose]_vars

\* the two bots that keep a daily state file
SpecBots == (InitBot \/ InitLose) /\ [][NextBot \/ NextLose]_vars

----------------------------------------------------------------------------
(* analyzeOrb: src/src/tools/orb_strategy.ts *)

OrbRangeSize == 30

\* 1-minute candles of one day: the window repeated to 30 candles, then a tail
OrbWindow(w) == w \o w \o w \o w \o w

OrbData ==
    {Dated(OrbWindow(w) \o t, 3) :
        w \in {WScenario, WNarrow}, t \in TailsUpTo({Quiet, Up, Down}, 2)}
    \cup {Dated(SubSeq(OrbWindow(WScenario), 1, n), 3) : n \in {0, 1, 7, 29, 30}}

\* if (candles.length < 31) return null
OrbTooShort(candles) == Len(candles) < OrbRangeSize + 1

\* analyzeOrb: the opening range it computed (None when it returned before)
\* and the candidate it returned (None for null)
analyzeOrb(candles, symbol) ==
    IF OrbTooShort(candles) THEN [range |-> None, signal |-> None]
    ELSE LET rng == OpeningRange(candles, OrbRangeSize)
             currentObj == Last(candles)
             currentPrice == currentObj.close
             cand(side, stop, target) ==
                 [symbol |-> symbol, currentPrice |-> currentPrice,
                  rangeHigh |-> rng.high, rangeLow |-> rng.low, breakout |-> side,
                  stopLoss |-> stop, target |-> target, timestamp |-> currentObj.date]
         IN  [range |-> rng,
              signal |->
                 IF currentPrice > rng.high
                 THEN cand("LONG", rng.low, currentPrice + (rng.high - rng.low))
                 ELSE IF currentPrice < rng.low
                 THEN cand("SHORT", rng.high, currentPrice - (rng.high - rng.low))
                 ELSE None]

InitOrb ==
    /\ site = "getOrbCandidates"
    /\ data = <<>>
    /\ pc = "scan"
    /\ Idle

\* one ticker scanned: analyzeOrb on the candles fetched
OrbAnalyze ==
    /\ site = "getOrbCandidates" /\ pc = "scan"
    /\ \E cs \in OrbData :
          LET r == analyzeOrb(cs, 1)
          IN  /\ data' = cs
              /\ range' = r.range
              /\ signal' = r.signal
    /\ UNCHANGED <<site, params, pc, days, d, sym, prevClose, i, position,
                   dailySignals, top5, k, trades, botVars, result>>

NextOrb == OrbAnalyze

----------------------------------------------------------------------------
(* The candle fetchers: src/src/backtest/dataFetcher.ts *)

\* a null in a quote array of the chart response (no price is negative)
Null == -1

\* axios.get rejects (no network, HTTP error)
Throws == [status |-> "throws", rows |-> <<>>]

\* the response has no chart.result: reading result[0] throws a TypeError
NoResult == [status |-> "no result", rows |-> <<>>]

\* a chart response with its rows
Chart(rows) == [status |-> "ok", rows |-> rows]

\* what a fetcher would hand to its caller if it let the error through
Raised == [raised |-> TRUE]

\* row n of a chart response: timestamp[n] and the quote arrays at n
Row(ts, shape) ==
    [timestamp |-> ts, open |-> shape.open, high |-> shape.high,
     low |-> shape.low, close |-> shape.close, volume |-> shape.volume]

RowsOf(shapes, day) == [n \in 1..Len(shapes) |-> Row(<<day, n>>, shapes[n])]

NoOpen(row) == [row EXCEPT !.open = Null]

NoClose(row) == [row EXCEPT !.close = Null]

\* new Date(ts * 1000).toISOString().split('T')[0]: the calendar date only
IsoDate(ts) == <<ts[1]>>

\* new Date(ts * 1000).toISOString(): date and time
IsoDateTime(ts) == ts

\* the OHLCV record built from a row
Ohlcv(row, date) ==
    [date |-> date, open |-> row.open, high |-> row.high, low |-> row.low,
     close |-> row.close, volume |-> row.volume]

\* fetchHistoricalData with no catch around the request
fetchHistoricalDataUncaught(symbol, response) ==
    IF response.status # "ok" THEN Raised
    ELSE [symbol |-> symbol,
          data |-> SelectSeq([n \in 1..Len(response.rows) |->
                                Ohlcv(response.rows[n], IsoDate(response.rows[n].timestamp))],
                             LAMBDA c : c.open # Null /\ c.close # Null)]

\* fetchHistoricalData: what it returns for a response
fetchHistoricalData(symbol, response) ==
    IF response.status # "ok" THEN [symbol |-> symbol, data |-> <<>>]
    ELSE [symbol |-> symbol,
          data |-> SelectSeq([n \in 1..Len(response.rows) |->
                                Ohlcv(response.rows[n], IsoDate(response.rows[n].timestamp))],
                             LAMBDA c : c.open # Null /\ c.close # Null)]

\* fetchIntradayData: what it returns for a response
fetchIntradayData(symbol, response) ==
    IF response.status # "ok" THEN [symbol |-> symbol, data |-> <<>>]
    ELSE [symbol |-> symbol,
          data |-> SelectSeq([n \in 1..Len(response.rows) |->
                                Ohlcv(response.rows[n],
                                      IsoDateTime(response.rows[n].timestamp))],
                             LAMBDA c : c.open # Null)]

\* daily chart responses: a failed request, no result, no rows, one row
\* without an open, a full row followed by a row without a close
DailyResponses ==
    {Throws, NoResult, Chart(<<>>),
     Chart(<<NoOpen(Row(<<1, 1>>, Quiet))>>),
     Chart(<<Row(<<1, 1>>, Quiet), NoClose(Row(<<2, 1>>, Up))>>)}

\* for (let i = 0; i < symbols.length; i += 5)
FetchBatchSize == 5

\* symbols.slice(i, i + 5)
FetchBatch(symbols, from) == Slice(symbols, from, from + FetchBatchSize)

\* results.set(result.symbol, result.data) for the results that have data
SetResults(results, batchResults) ==
    LET kept == {n \in 1..Len(batchResults) : Len(batchResults[n].data) > 0}
        last(s) == CHOOSE n \in kept :
                      /\ batchResults[n].symbol = s
                      /\ \A m \in kept : batchResults[m].symbol = s => m <= n
    IN  [s \in DOMAIN results \cup {batchResults[n].symbol : n \in kept} |->
            IF \E n \in kept : batchResults[n].symbol = s
            THEN batchResults[last(s)].data
            ELSE results[s]]

\* fetchMultipleSymbols on NSyms symbols; i is the offset of the batch
InitFetchMultiple ==
    /\ site = "fetchMultipleSymbols"
    /\ data = <<>>
    /\ pc = "batch"
    /\ params = None
    /\ days = <<>> /\ d = 0 /\ sym = 0 /\ prevClose = 0 /\ i = 0
    /\ range = None /\ position = None /\ signal = None
    /\ dailySignals = <<>> /\ top5 = <<>> /\ k = 0 /\ trades = <<>>
    /\ botState = None /\ state = None /\ today = 1 /\ result = <<>>
    /\ run = [symbols |-> [n \in 1..NSyms |-> n], responses |-> <<>>,
              batchResults |-> <<>>, results |-> <<>>]

\* one promise of the batch settles
FetchHistorical ==
    /\ site = "fetchMultipleSymbols" /\ pc = "batch"
    /\ Len(run.batchResults) < Len(FetchBatch(run.symbols, i))
    /\ \E response \in DailyResponses :
          LET s == FetchBatch(run.symbols, i)[Len(run.batchResults) + 1]
          IN  run' = [run EXCEPT
                        !.responses = Append(@, response),
                        !.batchResults = Append(@, fetchHistoricalData(s, response))]
    /\ UNCHANGED <<site, data, params, pc, days, d, sym, prevClose, i, range,
                   position, signal, dailySignals, top5, k, trades, botState,
                   state, today, result>>

\* await Promise.all(promises), then the results with data are kept
FetchCollect ==
    /\ site = "fetchMultipleSymbols" /\ pc = "batch"
    /\ Len(run.batchResults) = Len(FetchBatch(run.symbols, i))
    /\ IF \E n \in 1..Len(run.batchResults) : run.batchResults[n] = Raised
       THEN /\ pc' = "raised"
            /\ UNCHANGED <<i, run>>
       ELSE /\ run' = [run EXCEPT !.results = SetResults(@, run.batchResults),
                                  !.batchResults = <<>>]
            /\ i' = i + FetchBatchSize
            /\ pc' = IF i + FetchBatchSize < Len(run.symbols) THEN "batch" ELSE "done"
    /\ UNCHANGED <<site, data, params, days, d, sym, prevClose, range,
                   position, signal, dailySignals, top5, k, trades, botState,
                   state, today, result>>

\* 1-minute chart responses of one day: a failed request, no result, no rows,
\* a breakout after the 30-minute range, the same with the first open missing
IntradayResponses ==
    {Throws, NoResult, Chart(<<>>),
     Chart(RowsOf(OrbWindow(WScenario) \o <<Up>>, 3)),
     Chart([RowsOf(OrbWindow(WScenario) \o <<Up>>, 3) EXCEPT ![1] = NoOpen(@)])}

\* getOrbCandidates on NSyms symbols
InitOrbBatch ==
    /\ site = "getOrbCandidates"
    /\ data = <<>>
    /\ pc = "fetch"
    /\ params = None
    /\ days = <<>> /\ d = 0 /\ sym = 0 /\ prevClose = 0 /\ i = 0
    /\ range = None /\ position = None /\ signal = None
    /\ dailySignals = <<>> /\ top5 = <<>> /\ k = 0 /\ trades = <<>>
    /\ botState = None /\ state = None /\ today = 1 /\ result = <<>>
    /\ run = [symbols |-> [n \in 1..NSyms |-> n], responses |-> <<>>,
              results |-> <<>>, valid |-> <<>>]

\* one promise of the scan settles: the fetch, then analyzeOrb; an error of
\* either is caught and gives null
OrbFetch ==
    /\ site = "getOrbCandidates" /\ pc = "fetch"
    /\ Len(run.results) < Len(run.symbols)
    /\ \E response \in IntradayResponses :
          LET s == run.symbols[Len(run.results) + 1]
              fetched == fetchIntradayData(s, response)
          IN  run' = [run EXCEPT
                        !.responses = Append(@, response),
                        !.results = Append(@, IF fetched = Raised THEN None
                                              ELSE analyzeOrb(fetched.data, s).signal)]
    /\ UNCHANGED <<site, data, params, pc, days, d, sym, prevClose, i, range,
                   position, signal, dailySignals, top5, k, trades, botState,
                   state, today, result>>

\* results.filter(r => r !== null)
OrbCollect ==
    /\ site = "getOrbCandidates" /\ pc = "fetch"
    /\ Len(run.results) = Len(run.symbols)
    /\ run' = [run EXCEPT !.valid = SelectSeq(run.results, LAMBDA r : r # None)]
    /\ pc' = "done"
    /\ UNCHANGED <<site, data, params, days, d, sym, prevClose, i, range,
                   position, signal, dailySignals, top5, k, trades, botState,
                   state, today, result>>

InitFetch == InitFetchMultiple \/ InitOrbBatch

NextFetch == FetchHistorical \/ FetchCollect \/ OrbFetch \/ OrbCollect

SpecFetch == InitFetch /\ [][NextFetch]_vars

----------------------------------------------------------------------------
(* MarketSimulator: src/src/test_concurrency.ts.  The fields of the        *)
(* simulator are held in run; data is the tickers Map in insertion order;  *)
(* a candle's date <<day, n>> is minute n of that day.                     *)

SimSlippage == 5

\* $50k per trade, in cents
SimAmountPerTrade == 5000000

\* $100k starting capital, in cents
SimStartingCash == 10000000

SimRangeSize == 30

SimSymbols == {"A", "B", "C"}

\* the first ticker of the Map: one day, or a series whose date rolls over
\* after 32 candles
SimFirstSeries ==
    {Dated(OrbWindow(WScenario) \o t, 1) : t \in TailsUpTo({Quiet, Up}, MaxTail)}
    \cup {Dated(OrbWindow(WScenario) \o <<Quiet, Quiet>>, 1) \o Dated(t, 2) :
            t \in TailsUpTo({Quiet, Up}, MaxTail) \ {<<>>}}

\* the second ticker: one day of its own
\* one day whose candles after the breakout bar come gap minutes late
Halted(shapes, gap) ==
    [n \in 1..Len(shapes) |->
        [Dated(shapes, 1)[n] EXCEPT
            !.date = IF n > SimRangeSize + 1 THEN <<1, n + gap>> ELSE <<1, n>>]]

SimSecondSeries ==
    {Dated(OrbWindow(WScenario) \o t, 1) : t \in TailsUpTo({Quiet, Up, Outside}, MaxTail)}
    \cup {Halted(OrbWindow(WScenario) \o <<x, Quiet, Quiet, Quiet>>, gap) :
            x \in {Up, Down}, gap \in {118, 119}}

\* three tickers that break out on the same candle on volumes of 1.3, 1.2
\* and 0.9 times the average of the window, added in every order
SimContest ==
    LET series(x) == Dated(OrbWindow(WScenario) \o <<x, Quiet>>, 1)
        a == [symbol |-> "A", data |-> series(Up)]
        b == [symbol |-> "B", data |-> series(UpEven)]
        c == [symbol |-> "C", data |-> series(UpThin)]
    IN  {<<a, b, c>>, <<a, c, b>>, <<b, a, c>>, <<b, c, a>>, <<c, a, b>>, <<c, b, a>>}

SimTickers ==
    {<<[symbol |-> "A", data |-> a], [symbol |-> "B", data |-> b]>> :
        a \in SimFirstSeries, b \in SimSecondSeries}
    \cup SimContest

\* (new Date(d2).getTime() - new Date(d1).getTime()) / 60000
getTimeDiffMinutes(d1, d2) == (d2[1] - d1[1]) * 1440 + (d2[2] - d1[2])

\* getDateAtIdx: the date of the first ticker that has a candle at idx,
\* 0 for null
RECURSIVE getDateAtIdx(_, _)
getDateAtIdx(tickers, idx) ==
    IF tickers = <<>> THEN 0
    ELSE IF idx < Len(tickers[1].data) THEN DayOf(tickers[1].data[idx + 1])
    ELSE getDateAtIdx(Tail(tickers), idx)

\* this.tickers.get(symbol)
TickerData(tickers, symbol) ==
    IF \E n \in 1..Len(tickers) : tickers[n].symbol = symbol
    THEN tickers[CHOOSE n \in 1..Len(tickers) : tickers[n].symbol = symbol].data
    ELSE <<>>

\* the exit that managePositions finds for a position on a candle
\* (exitPrice 0: none)
SimExit(pos, candle, isLast) ==
    LET hitsStop == IF pos.side = "LONG" THEN candle.low <= pos.stopLoss
                    ELSE candle.high >= pos.stopLoss
        hitsTarget == IF pos.side = "LONG" THEN candle.high >= pos.target
                      ELSE candle.low <= pos.target
    IN  IF hitsStop
        THEN [exitPrice |-> IF pos.side = "LONG" THEN pos.stopLoss - SimSlippage
                            ELSE pos.stopLoss + SimSlippage,
              reason |-> "STOP_LOSS"]
        ELSE IF hitsTarget THEN [exitPrice |-> pos.target, reason |-> "TARGET_HIT"]
        ELSE IF isLast THEN [exitPrice |-> candle.close, reason |-> "EOD_EXIT"]
        ELSE IF getTimeDiffMinutes(pos.entryTime, candle.date) >= 120
        THEN [exitPrice |-> candle.close, reason |-> "TIME_EXIT"]
        ELSE [exitPrice |-> 0, reason |-> ""]

\* this.positions.splice(index, 1)
Splice(s, index) == SubSeq(s, 1, index - 1) \o SubSeq(s, index + 1, Len(s))

\* a settlement that returns the principal without the profit or loss
closePositionPrincipalOnly(sim, index, price, time, reason) ==
    LET pos == sim.positions[index]
        pnl == IF pos.side = "LONG" THEN (price - pos.entryPrice) * pos.quantity
               ELSE (pos.entryPrice - price) * pos.quantity
        principal == pos.entryPrice * pos.quantity
    IN  [sim EXCEPT
           !.tradeHistory = Append(@, [symbol |-> pos.symbol, entryTime |-> pos.entryTime,
                                       exitTime |-> time, side |-> pos.side, pnl |-> pnl,
                                       returnPercent |-> Rat(pnl * 100, principal),
                                       reason |-> reason]),
           !.positions = Splice(@, index),
           !.equity = @ + pnl,
           !.cash = @ + principal]

closePosition(sim, index, price, time, reason) ==
    LET pos == sim.positions[index]
        pnl == IF pos.side = "LONG" THEN (price - pos.entryPrice) * pos.quantity
               ELSE (pos.entryPrice - price) * pos.quantity
        principal == pos.entryPrice * pos.quantity
    IN  [sim EXCEPT
           !.tradeHistory = Append(@, [symbol |-> pos.symbol, entryTime |-> pos.entryTime,
                                       exitTime |-> time, side |-> pos.side, pnl |-> pnl,
                                       returnPercent |-> Rat(pnl * 100, principal),
                                       reason |-> reason]),
           !.positions = Splice(@, index),
           !.equity = @ + pnl,
           !.cash = @ + principal + pnl]

\* managePositions: the positions from index n down to the first
RECURSIVE ManageFrom(_, _, _, _)
ManageFrom(sim, tickers, idx, n) ==
    IF n = 0 THEN sim
    ELSE LET pos == sim.positions[n]
             cs == TickerData(tickers, pos.symbol)
         IN  IF idx >= Len(cs) THEN ManageFrom(sim, tickers, idx, n - 1)
             ELSE LET candle == cs[idx + 1]
                      exit == SimExit(pos, candle, idx = Len(cs) - 1)
                  IN  ManageFrom(IF exit.exitPrice > 0
                                 THEN closePosition(sim, n, exit.exitPrice,
                                                    candle.date, exit.reason)
                                 ELSE sim,
                                 tickers, idx, n - 1)

managePositions(sim, tickers, idx) == ManageFrom(sim, tickers, idx, Len(sim.positions))

openPosition(sim, setup, time) ==
    IF sim.cash < SimAmountPerTrade THEN sim
    ELSE LET quantity == SimAmountPerTrade \div setup.currentPrice
         IN  IF quantity = 0 THEN sim
             ELSE [sim EXCEPT
                     !.cash = @ - quantity * setup.currentPrice,
                     !.positions = Append(@, [symbol |-> setup.symbol,
                                              side |-> setup.breakout,
                                              entryPrice |-> setup.currentPrice,
                                              quantity |-> quantity,
                                              stopLoss |-> setup.stopLoss,
                                              target |-> setup.target,
                                              entryTime |-> time]),
                     !.tradesToday[setup.symbol] = @ + 1]

\* the index of the first candle of the day of data[idx], going back over at
\* most 400 candles
RECURSIVE StartOfToday(_, _, _, _)
StartOfToday(cs, start, limit, currentDay) ==
    IF start > 0 /\ limit > 0 /\ DayOf(cs[start]) = currentDay
    THEN StartOfToday(cs, start - 1, limit - 1, currentDay)
    ELSE start

\* the body of scanForSetups for one ticker
SimScanTicker(sim, ticker, idx) ==
    LET cs == ticker.data
        symbol == ticker.symbol
    IN  IF idx >= Len(cs) THEN sim
        ELSE IF \E n \in 1..Len(sim.positions) : sim.positions[n].symbol = symbol THEN sim
        ELSE IF sim.tradesToday[symbol] >= 1 THEN sim
        ELSE LET currentCandle == cs[idx + 1]
                 startOfToday == StartOfToday(cs, idx, 400, DayOf(currentCandle))
             IN  IF idx - startOfToday < SimRangeSize THEN sim
                 ELSE LET rng == OpeningRange(SubSeq(cs, startOfToday + 1, Len(cs)),
                                              SimRangeSize)
                          height == rng.high - rng.low
                      IN  IF currentCandle.high > rng.high
                          THEN openPosition(sim,
                                   [symbol |-> symbol, breakout |-> "LONG",
                                    currentPrice |-> rng.high + SimSlippage,
                                    stopLoss |-> rng.low,
                                    target |-> rng.high + SimSlippage + height],
                                   currentCandle.date)
                          ELSE IF currentCandle.low < rng.low
                          THEN openPosition(sim,
                                   [symbol |-> symbol, breakout |-> "SHORT",
                                    currentPrice |-> rng.low - SimSlippage,
                                    stopLoss |-> rng.high,
                                    target |-> rng.low - SimSlippage - height],
                                   currentCandle.date)
                          ELSE sim

\* this.tickers.forEach from ticker n on
RECURSIVE ScanFrom(_, _, _, _)
ScanFrom(sim, tickers, idx, n) ==
    IF n > Len(tickers) THEN sim
    ELSE ScanFrom(SimScanTicker(sim, tickers[n], idx), tickers, idx, n + 1)

scanForSetups(sim, tickers, idx) ==
    IF idx < SimRangeSize THEN sim ELSE ScanFrom(sim, tickers, idx, 1)

\* if (date && date !== this.currentDay) { ...; this.tradesToday.clear() }
DayChange(sim, tickers, idx) ==
    LET date == getDateAtIdx(tickers, idx)
    IN  IF date # 0 /\ date # sim.currentDay
        THEN [sim EXCEPT !.currentDay = date,
                         !.tradesToday = [s \in SimSymbols |-> 0]]
        ELSE sim

\* the longest series of the Map
RECURSIVE MaxLen(_)
MaxLen(tickers) ==
    IF tickers = <<>> THEN 0 ELSE Max2(Len(tickers[1].data), MaxLen(Tail(tickers)))

\* a simulator with its tickers added; i is the index of the time loop
InitSimulator ==
    /\ site = "MarketSimulator"
    /\ data \in SimTickers
    /\ pc = "run"
    /\ params = None
    /\ days = <<>> /\ d = 0 /\ sym = 0 /\ prevClose = 0 /\ i = 0
    /\ range = None /\ position = None /\ signal = None
    /\ dailySignals = <<>> /\ top5 = <<>> /\ k = 0 /\ trades = <<>>
    /\ botState = None /\ state = None /\ today = 1 /\ result = <<>>
    /\ run = [positions |-> <<>>, tradeHistory |-> <<>>, currentTimeIdx |-> 0,
              cash |-> SimStartingCash, equity |-> SimStartingCash,
              tradesToday |-> [s \in SimSymbols |-> 0], currentDay |-> 0]

\* one pass of the time loop of run
SimTick ==
    /\ site = "MarketSimulator" /\ pc = "run"
    /\ i < MaxLen(data)
    /\ run' = scanForSetups(
                  managePositions(
                      DayChange([run EXCEPT !.currentTimeIdx = i], data, i), data, i),
                  data, i)
    /\ i' = i + 1
    /\ UNCHANGED <<site, data, params, pc, days, d, sym, prevClose, range,
                   position, signal, dailySignals, top5, k, trades, botState,
                   state, today, result>>

\* the loop is left and the report is generated
SimEnd ==
    /\ site = "MarketSimulator" /\ pc = "run"
    /\ i >= MaxLen(data)
    /\ pc' = "done"
    /\ UNCHANGED <<site, data, params, days, d, sym, prevClose, i, range,
                   position, signal, dailySignals, top5, k, trades, botVars, result>>

NextSimulator == SimTick \/ SimEnd

SpecSimulator == InitSimulator /\ [][NextSimulator]_vars

----------------------------------------------------------------------------
(* One bar managed by each of the four bar loops.  position is the open    *)
(* position, data the bar, result what each loop took first.               *)

\* a long and a short position on the 100.00 .. 102.00 range, target at 1R
ExitPositions ==
    {[side |-> "LONG", entryPrice |-> 10200, stop |-> 10000, target |-> 10400],
     [side |-> "SHORT", entryPrice |-> 10000, stop |-> 10200, target |-> 9800]}

ExitBars == {Dated(<<shape>>, 1) : shape \in Alphabet}

\* what a loop took first on the bar, from the exit reason it gave
TakenBy(reason) ==
    IF reason = "STOP_LOSS" THEN "stop"
    ELSE IF reason = "TARGET_HIT" THEN "target"
    ELSE "none"

\* backtestDay (long only), on a bar before the time exit
backtestDayTakes(p, c) ==
    LET trade == DayManage([side |-> "LONG", entryPrice |-> p.entryPrice,
                            entryTime |-> c.date, stopPrice |-> p.stop,
                            targetPrice |-> p.target, quantity |-> 100],
                           c, OpeningRangeSize + 1,
                           [rangeMinutes |-> 6, profitTargetR |-> 1,
                            maxHoldMinutes |-> 60])
    IN  IF trade = None THEN "none" ELSE TakenBy(trade.reason)

\* MarketSimulator.managePositions
managePositionsTakes(p, c) ==
    TakenBy(SimExit([symbol |-> "A", side |-> p.side, entryPrice |-> p.entryPrice,
                     quantity |-> 1, stopLoss |-> p.stop, target |-> p.target,
                     entryTime |-> c.date], c, FALSE).reason)

\* simulateTrade: the scale-out at target1 is taken before the stop is read
simulateTradeTakes(p, c) ==
    LET r == SimBar([side |-> p.side, entryPrice |-> p.entryPrice, stop |-> p.stop,
                     target1 |-> p.target, scaledOut |-> FALSE, pnlAcc |-> 0],
                    c, FALSE)
    IN  IF r.position.scaledOut THEN "target"
        ELSE IF r.reason = "STOP" THEN "stop" ELSE "none"

\* testTicker: the scale-out at target1 is taken before the stop is read
testTickerTakes(p, c) ==
    LET pos == IF p.side = "LONG"
               THEN [side |-> "LONG", entryPrice |-> p.entryPrice, stop |-> p.stop,
                     target1 |-> p.target, scaledOut |-> FALSE,
                     maxPrice |-> p.entryPrice, entryTime |-> c.date, pnlAcc |-> 0]
               ELSE [side |-> "SHORT", entryPrice |-> p.entryPrice, stop |-> p.stop,
                     target1 |-> p.target, scaledOut |-> FALSE,
                     minPrice |-> p.entryPrice, entryTime |-> c.date, pnlAcc |-> 0]
        r == TickerManage(pos, c, FALSE)
    IN  IF r.position.scaledOut THEN "target"
        ELSE IF r.reason = "STOP" THEN "stop" ELSE "none"

InitExitRules ==
    /\ site = "exit rules"
    /\ data \in ExitBars
    /\ position \in ExitPositions
    /\ pc = "bar"
    /\ params = None
    /\ days = <<>> /\ d = 0 /\ sym = 0 /\ prevClose = 0 /\ i = 0
    /\ range = None /\ signal = None
    /\ dailySignals = <<>> /\ top5 = <<>> /\ k = 0 /\ trades = <<>>
    /\ botState = None /\ state = None /\ today = 1 /\ result = <<>>
    /\ run = None

\* the loop of one call site manages the bar
Managed(loop, taken) ==
    /\ site = "exit rules" /\ pc = "bar"
    /\ loop \notin DOMAIN result
    /\ result' = [l \in DOMAIN result \cup {loop} |->
                    IF l = loop THEN taken ELSE result[l]]
    /\ UNCHANGED <<site, data, params, pc, days, d, sym, prevClose, i, range,
                   position, signal, dailySignals, top5, k, trades, botVars>>

BacktestDayManages ==
    /\ position.side = "LONG"
    /\ Managed("backtestDay", backtestDayTakes(position, data[1]))

ManagePositionsManages ==
    /\ position.side \in {"LONG", "SHORT"}
    /\ Managed("managePositions", managePositionsTakes(position, data[1]))

SimulateTradeManages ==
    /\ position.side \in {"LONG", "SHORT"}
    /\ Managed("simulateTrade", simulateTradeTakes(position, data[1]))

TestTickerManages ==
    /\ position.side \in {"LONG", "SHORT"}
    /\ Managed("testTicker", testTickerTakes(position, data[1]))

NextExitRules ==
    \/ BacktestDayManages \/ ManagePositionsManages
    \/ SimulateTradeManages \/ TestTickerManages

SpecExitRules == InitExitRules /\ [][NextExitRules]_vars

----------------------------------------------------------------------------
(* The session drivers together *)

InitSingle ==
    /\ site = "runPortfolioBacktest"
    /\ data \in SingleData
    /\ pc = "fetch"
    /\ Idle

Init == InitTicker \/ InitSingle \/ InitIntraday \/ InitBot \/ InitDetect \/ InitOrb

Next == NextTicker \/ NextPortfolio \/ NextIntraday \/ NextBot \/ DetectInverted \/ NextOrb

Spec == Init /\ [][Next]_vars


----------------------------------------------------------------------------
(* aggregateResults: src/unnamed/part_006 *)

\* IEEE results of a division by zero
Infinity == Rat(1, 0)

NaN == Rat(0, 0)

RatMax(a, b) == IF RatLt(a, b) THEN b ELSE a

RECURSIVE Gcd(_, _)
Gcd(a, b) == IF b = 0 THEN a ELSE Gcd(b, a % b)

\* a fraction in lowest terms
Norm(r) ==
    LET g == Gcd(Abs(r.num), r.den)
    IN  IF g = 0 THEN r ELSE Rat(r.num \div g, r.den \div g)

\* the fields of a gap-fill trade that aggregateResults reads; backtestGapFill
\* sets won to pnlPercent > 0
GapTrade(p) == [pnlPercent |-> p, won |-> p > 0]

\* returns in percent whose compounding factors are 1/2, 4/5, 1, 5/4 and 2
PnlValues == {-50, -20, 0, 25, 100}

Ledgers == UNION {[1..n -> {GapTrade(p) : p \in PnlValues}] : n \in 0..MaxLedger}

Wins(ledger) == SelectSeq(ledger, LAMBDA t : t.won)

\* the losers as the trades of negative return
LossesBelowZero(ledger) == SelectSeq(ledger, LAMBDA t : t.pnlPercent < 0)

Losses(ledger) == SelectSeq(ledger, LAMBDA t : ~t.won)

SumPnl(ledger) == SeqSum([n \in 1..Len(ledger) |-> ledger[n].pnlPercent])

\* the quotient with no case for a zero divisor
ProfitFactorQuotient(totalWins, totalLosses) == Rat(totalWins, totalLosses)

\* totalLosses > 0 ? totalWins / totalLosses : totalWins > 0 ? Infinity : 0
ProfitFactor(totalWins, totalLosses) ==
    IF totalLosses > 0 THEN Rat(totalWins, totalLosses)
    ELSE IF totalWins > 0 THEN Infinity
    ELSE Rat(0, 1)

\* the compounding loop: cumulative, peak and maxDrawdown after the ledger
RECURSIVE Compound(_)
Compound(ledger) ==
    IF ledger = <<>>
    THEN [cumulative |-> Rat(100, 1), peak |-> Rat(100, 1), maxDrawdown |-> Rat(0, 1)]
    ELSE LET before == Compound(SubSeq(ledger, 1, Len(ledger) - 1))
             trade == Last(ledger)
             cumulative == Norm(Rat(before.cumulative.num * (100 + trade.pnlPercent),
                                    before.cumulative.den * 100))
             peak == RatMax(before.peak, cumulative)
             drawdown == Norm(Rat((peak.num * cumulative.den - cumulative.num * peak.den) * 100,
                                  peak.num * cumulative.den))
         IN  [cumulative |-> cumulative, peak |-> peak,
              maxDrawdown |-> RatMax(before.maxDrawdown, drawdown)]

aggregateResults(ledger) ==
    IF Len(ledger) = 0 THEN
        [totalTrades |-> 0, wins |-> 0, losses |-> 0, winRate |-> Rat(0, 1),
         avgWinPercent |-> Rat(0, 1), avgLossPercent |-> Rat(0, 1),
         profitFactor |-> Rat(0, 1), totalReturn |-> Rat(0, 1),
         maxDrawdown |-> Rat(0, 1), trades |-> <<>>]
    ELSE LET wins == Wins(ledger)
             losses == Losses(ledger)
             c == Compound(ledger)
         IN  [totalTrades |-> Len(ledger),
              wins |-> Len(wins),
              losses |-> Len(losses),
              winRate |-> Rat(Len(wins) * 100, Len(ledger)),
              avgWinPercent |-> IF Len(wins) > 0 THEN Rat(SumPnl(wins), Len(wins))
                                ELSE Rat(0, 1),
              avgLossPercent |-> IF Len(losses) > 0
                                 THEN Rat(Abs(SumPnl(losses)), Len(losses))
                                 ELSE Rat(0, 1),
              profitFactor |-> ProfitFactor(SumPnl(wins), Abs(SumPnl(losses))),
              totalReturn |-> Rat(c.cumulative.num - 100 * c.cumulative.den,
                                  c.cumulative.den),
              maxDrawdown |-> c.maxDrawdown,
              trades |-> ledger]

MaxCalls == 2

InitAggregate ==
    /\ site = "aggregateResults"
    /\ data \in Ledgers
    /\ pc = "call"
    /\ Idle

\* one call of aggregateResults on the ledger; the result holds the array
\* it was given
Aggregate ==
    /\ site = "aggregateResults" /\ pc = "call"
    /\ Len(result) < MaxCalls
    /\ LET r == aggregateResults(data)
       IN  /\ result' = Append(result, r)
           /\ data' = IF Len(data) = 0 THEN data ELSE r.trades
    /\ UNCHANGED <<site, params, pc, days, d, sym, prevClose, i, range, position,
                   signal, dailySignals, top5, k, trades, botVars>>

SpecAggregate == InitAggregate /\ [][Aggregate]_vars



----------------------------------------------------------------------------
(* ApiClient and AuthManager: src/unnamed/part_008, src/verify_orb.js.     *)
(* run holds the AuthManager, the events of the last call in the order     *)
(* they happened, and what the call gave back.                             *)

\* what fetch may give: a status (0 stands for a rejected fetch), whether
\* response.url includes /login, and which request of the call it answers
ApiResponses(nth) ==
    [status : {0, 200, 401, 500}, toLogin : BOOLEAN, nth : {nth}]

\* a session that counts as expired on a 401 only
SessionExpiredOn401Only(response) == response.status = 401

\* response.status === 401 || response.url.includes('/login')
SessionExpired(response) == response.status = 401 \/ response.toLogin

\* the request of the first fetch of get and post
ApiRequest(method, path, body) ==
    [method |-> method, path |-> path, body |-> body,
     contentType |-> IF method = "POST" THEN "application/x-www-form-urlencoded"
                     ELSE "none"]

\* the request of the retry: the headers are built again from getHeaders()
\* and the caller's headers, without the Content-Type of the first request
ApiRetry(method, path, body) ==
    [method |-> method, path |-> path, body |-> body, contentType |-> "none"]

ApiEvent(kind, request) == [kind |-> kind, request |-> request]

\* AuthManager.login: isAuthenticated becomes whether the cookies came
AuthLogin(auth, ok) == [auth EXCEPT !.isAuthenticated = ok, !.logins = @ + 1]

\* AuthManager.refreshSession: the flag and the cookie jar are reset, then login
refreshSession(auth, ok) ==
    AuthLogin([auth EXCEPT !.isAuthenticated = FALSE, !.refreshes = @ + 1], ok)

\* ApiClient.get and ApiClient.post: ensureAuthenticated, the fetch, and on
\* an expired session refreshSession and one more fetch.  loginA and loginB
\* are the outcomes of the logins, first and second what the fetches give.
ApiSend(auth, method, path, body, loginA, first, loginB, second) ==
    LET a1 == IF auth.isAuthenticated THEN auth ELSE AuthLogin(auth, loginA)
        e1 == (IF auth.isAuthenticated THEN <<>> ELSE <<ApiEvent("login", None)>>)
              \o <<ApiEvent("fetch", ApiRequest(method, path, body))>>
    IN  IF first.status = 0
        THEN [auth |-> a1, events |-> e1, raised |-> TRUE, response |-> None]
        ELSE IF SessionExpired(first)
        THEN [auth |-> refreshSession(a1, loginB),
              events |-> e1 \o <<ApiEvent("refreshSession", None),
                                 ApiEvent("login", None),
                                 ApiEvent("fetch", ApiRetry(method, path, body))>>,
              raised |-> second.status = 0,
              response |-> IF second.status = 0 THEN None ELSE second]
        ELSE [auth |-> a1, events |-> e1, raised |-> FALSE, response |-> first]

ApiPaths == {"/trading/equities", "/trading/placeorderv2"}

\* an ApiClient on a fresh AuthManager; k counts the calls made
InitApi ==
    /\ site = "ApiClient"
    /\ data = <<>>
    /\ pc = "idle"
    /\ params = None
    /\ days = <<>> /\ d = 0 /\ sym = 0 /\ prevClose = 0 /\ i = 0
    /\ range = None /\ position = None /\ signal = None
    /\ dailySignals = <<>> /\ top5 = <<>> /\ k = 0 /\ trades = <<>>
    /\ botState = None /\ state = None /\ today = 1 /\ result = <<>>
    /\ run = [auth |-> [isAuthenticated |-> FALSE, logins |-> 0, refreshes |-> 0],
              events |-> <<>>, raised |-> FALSE, response |-> None, first |-> None]

\* one call of get or post, from its first line to its return or throw
ApiCall(method, body) ==
    /\ pc = "idle" /\ k < MaxCalls
    /\ \E path \in ApiPaths, loginA, loginB \in BOOLEAN,
          first \in ApiResponses(1), second \in ApiResponses(2) :
          LET r == ApiSend(run.auth, method, path, body, loginA, first, loginB, second)
          IN  run' = [auth |-> r.auth, events |-> r.events, raised |-> r.raised,
                      response |-> r.response, first |-> first]
    /\ k' = k + 1
    /\ UNCHANGED <<site, data, params, pc, days, d, sym, prevClose, i, range,
                   position, signal, dailySignals, top5, trades, botState, state,
                   today, result>>

ApiGet ==
    /\ site = "ApiClient"
    /\ ApiCall("GET", "none")

ApiPost ==
    /\ site = "ApiClient"
    /\ ApiCall("POST", "Symbol=AAPL")

NextApi == ApiGet \/ ApiPost

SpecApi == InitApi /\ [][NextApi]_vars

----------------------------------------------------------------------------
(* executeTrade: src/unnamed/part_016.  run holds the AuthManager, the     *)
(* locals of the call and the requests fetch was given, in order.          *)

TradeParamSet ==
    [symbol : {"aapl"}, action : {"buy", "sell"}, quantity : {10},
     orderType : {"market", "limit"}, limitPrice : {0, 10100}, duration : {"day"}]

\* symbol.toUpperCase()
ToUpperCase(symbol) == IF symbol = "aapl" THEN "AAPL" ELSE symbol

\* a page as fetch gives it: the ids scraped from it (Null when the page has
\* none, 0 for the string '0')
PageResponses(nth) ==
    [status : {0, 200, 401}, toLogin : {FALSE}, nth : {nth},
     accountId : {Null, 0, 7}, tournamentId : {Null, 7}]

\* the answer to a preview or place request and what its body parses to
OrderResponses(nth) ==
    [status : {0, 200, 401, 500}, toLogin : {FALSE}, nth : {nth},
     body : {"Success", "Failure", "not JSON"}]

\* !id || id === '0'
InvalidId(id) == id = Null \/ id = 0

\* 3. the payload
TradePayload(prm, accountId, tournamentId, lastPrice) ==
    [TournamentID |-> tournamentId, AccountID |-> accountId,
     OrderSide |-> IF prm.action = "buy" THEN "1" ELSE "2",
     Symbol |-> ToUpperCase(prm.symbol), Quantity |-> prm.quantity,
     OrderType |-> IF prm.orderType = "market" THEN "1" ELSE "2",
     Price |-> IF prm.orderType = "limit" /\ prm.limitPrice # 0
               THEN prm.limitPrice ELSE lastPrice,
     OrderExpiration |-> "1"]

\* the requests among the events of a call of the ApiClient
RECURSIVE FetchesOf(_)
FetchesOf(events) ==
    IF events = <<>> THEN <<>>
    ELSE (IF events[1].kind = "fetch" THEN <<events[1].request>> ELSE <<>>)
         \o FetchesOf(Tail(events))

InitTrade ==
    /\ site = "executeTrade"
    /\ data = <<>>
    /\ pc = "context"
    /\ params \in TradeParamSet
    /\ days = <<>> /\ d = 0 /\ sym = 0 /\ prevClose = 0 /\ i = 0
    /\ range = None /\ position = None /\ signal = None
    /\ dailySignals = <<>> /\ top5 = <<>> /\ k = 0 /\ trades = <<>>
    /\ botState = None /\ state = None /\ today = 1 /\ result = <<>>
    /\ run = [auth |-> [isAuthenticated |-> TRUE, logins |-> 0, refreshes |-> 0],
              accountId |-> Null, tournamentId |-> Null, quote |-> "none",
              lastPrice |-> 0, payload |-> None, requests |-> <<>>,
              preview |-> None, outcome |-> None]

\* 1. the trading page is fetched and the ids are read from it
TradeContext ==
    /\ site = "executeTrade" /\ pc = "context"
    /\ \E loginB \in BOOLEAN, first \in PageResponses(1), second \in PageResponses(2) :
          LET r == ApiSend(run.auth, "GET", "/trading/equities", None,
                           TRUE, first, loginB, second)
          IN  IF r.raised
              THEN /\ pc' = "raised"
                   /\ run' = [run EXCEPT !.auth = r.auth,
                                         !.requests = @ \o FetchesOf(r.events)]
              ELSE /\ pc' = IF InvalidId(r.response.accountId)
                               \/ InvalidId(r.response.tournamentId)
                            THEN "rankings" ELSE "quote"
                   /\ run' = [run EXCEPT !.auth = r.auth,
                                         !.requests = @ \o FetchesOf(r.events),
                                         !.accountId = r.response.accountId,
                                         !.tournamentId = r.response.tournamentId]
    /\ UNCHANGED <<site, data, params, days, d, sym, prevClose, i, range,
                   position, signal, dailySignals, top5, k, trades, botState,
                   state, today, result>>

\* the fallback to the rankings page, and the throw when an id is still
\* missing after it
TradeRankings ==
    /\ site = "executeTrade" /\ pc = "rankings"
    /\ \E loginB \in BOOLEAN, first \in PageResponses(1), second \in PageResponses(2) :
          LET r == ApiSend(run.auth, "GET", "/accounting/rankings", None,
                           TRUE, first, loginB, second)
              accountId == IF ~InvalidId(run.accountId) THEN run.accountId
                           ELSE r.response.accountId
              tournamentId == IF ~InvalidId(run.tournamentId) THEN run.tournamentId
                              ELSE r.response.tournamentId
          IN  IF r.raised
              THEN /\ pc' = "raised"
                   /\ run' = [run EXCEPT !.auth = r.auth,
                                         !.requests = @ \o FetchesOf(r.events)]
              ELSE /\ pc' = IF InvalidId(accountId) \/ InvalidId(tournamentId)
                            THEN "raised" ELSE "quote"
                   /\ run' = [run EXCEPT !.auth = r.auth,
                                         !.requests = @ \o FetchesOf(r.events),
                                         !.accountId = accountId,
                                         !.tournamentId = tournamentId]
    /\ UNCHANGED <<site, data, params, days, d, sym, prevClose, i, range,
                   position, signal, dailySignals, top5, k, trades, botState,
                   state, today, result>>

\* 2. the quote, whose failure is caught, and 3. the payload
TradeQuote ==
    /\ site = "executeTrade" /\ pc = "quote"
    /\ \E quote \in {0, 10150} :
          LET lastPrice == quote
          IN  run' = [run EXCEPT
                        !.quote = IF quote = 0 THEN "throws" ELSE "ok",
                        !.lastPrice = lastPrice,
                        !.payload = TradePayload(params, run.accountId,
                                                 run.tournamentId, lastPrice)]
    /\ pc' = "preview"
    /\ UNCHANGED <<site, data, params, days, d, sym, prevClose, i, range,
                   position, signal, dailySignals, top5, k, trades, botState,
                   state, today, result>>

\* a preview whose answer is not looked at
TradePreviewUnchecked ==
    /\ site = "executeTrade" /\ pc = "preview"
    /\ \E loginB \in BOOLEAN, first \in OrderResponses(1), second \in OrderResponses(2) :
          LET r == ApiSend(run.auth, "POST", "/trading/previeworderv2", run.payload,
                           TRUE, first, loginB, second)
          IN  /\ run' = [run EXCEPT !.auth = r.auth,
                                    !.requests = @ \o FetchesOf(r.events),
                                    !.preview = r.response]
              /\ pc' = IF r.raised THEN "raised" ELSE "place"
    /\ UNCHANGED <<site, data, params, days, d, sym, prevClose, i, range,
                   position, signal, dailySignals, top5, k, trades, botState,
                   state, today, result>>

\* 4. the preview request and the checks of its answer
TradePreview ==
    /\ site = "executeTrade" /\ pc = "preview"
    /\ \E loginB \in BOOLEAN, first \in OrderResponses(1), second \in OrderResponses(2) :
          LET r == ApiSend(run.auth, "POST", "/trading/previeworderv2", run.payload,
                           TRUE, first, loginB, second)
          IN  /\ run' = [run EXCEPT !.auth = r.auth,
                                    !.requests = @ \o FetchesOf(r.events),
                                    !.preview = r.response]
              /\ pc' = IF r.raised THEN "raised"
                       ELSE IF r.response.status # 200 THEN "raised"
                       ELSE IF r.response.body # "Success" THEN "raised"
                       ELSE "place"
    /\ UNCHANGED <<site, data, params, days, d, sym, prevClose, i, range,
                   position, signal, dailySignals, top5, k, trades, botState,
                   state, today, result>>

\* 5. the place order request and 6. the result returned
TradePlace ==
    /\ site = "executeTrade" /\ pc = "place"
    /\ \E loginB \in BOOLEAN, first \in OrderResponses(1), second \in OrderResponses(2) :
          LET r == ApiSend(run.auth, "POST", "/trading/placeorderv2", run.payload,
                           TRUE, first, loginB, second)
              thrown == r.raised \/ (r.response.status = 200 /\ r.response.body = "not JSON")
          IN  /\ run' = [run EXCEPT
                            !.auth = r.auth,
                            !.requests = @ \o FetchesOf(r.events),
                            !.outcome = IF thrown THEN None
                                        ELSE [success |-> r.response.status = 200
                                                          /\ r.response.body = "Success"]]
              /\ pc' = IF thrown THEN "raised" ELSE "returned"
    /\ UNCHANGED <<site, data, params, days, d, sym, prevClose, i, range,
                   position, signal, dailySignals, top5, k, trades, botState,
                   state, today, result>>

NextTrade == TradeContext \/ TradeRankings \/ TradeQuote \/ TradePreview \/ TradePlace

SpecTrade == InitTrade /\ [][NextTrade]_vars

----------------------------------------------------------------------------
(* Properties *)

\* the session of a calendar date among grouped sessions
SessionOn(groups, date) ==
    groups[CHOOSE n \in 1..Len(groups) : DayOf(groups[n][1]) = date]

\* the session the live bots look at: the last run of the fetched candles
LastRun(cs) == IF cs = <<>> THEN <<>> ELSE Last(GroupRuns(cs))

\* C1: a session with fewer than openingRangeSize + 1 candles (7 five-minute
\* candles in checkSignal, testTicker, checkSetup and detectInvertedSignal,
\* 31 one-minute candles in analyzeOrb, rangeMinutes + 1 in backtestDay) gets
\* no opening range, and no signal, position or trade comes from it.
ShortSessionYieldsNothing ==
    /\ site = "testTicker" =>
          /\ pc = "bar" => Len(days[d]) >= OpeningRangeSize + 1
          /\ (pc = "day" /\ d > 1 /\ Len(days[d - 1]) < OpeningRangeSize + 1)
                => range = None /\ position = None
          /\ \A n \in 1..Len(trades) :
                Len(SessionOn(days, trades[n].entryTime[1])) >= OpeningRangeSize + 1
    /\ site = "backtestIntraday" =>
          /\ pc = "bar" => Len(days[d]) >= params.rangeMinutes + 1
          /\ (pc = "day" /\ d > 1 /\ Len(days[d - 1]) < params.rangeMinutes + 1)
                => range = None /\ position = None
          /\ \A n \in 1..Len(trades) :
                Len(SessionOn(days, trades[n].entryTime[1])) >= params.rangeMinutes + 1
    /\ site = "runPortfolioBacktest" =>
          /\ (pc = "scan" /\ sym > 1 /\ d <= Len(SortedDates(days))) =>
                LET s == SetToSeq(DOMAIN days)[sym - 1]
                    date == SortedDates(days)[d]
                IN  (/\ date \in {DayOf(days[s][n][1]) : n \in 1..Len(days[s])}
                     /\ Len(SessionOn(days[s], date)) < OpeningRangeSize + 1)
                        => range = None /\ signal = None
          /\ \A n \in 1..Len(dailySignals) :
                Len(SessionOn(days[dailySignals[n].symbol],
                              dailySignals[n].candles[1].date[1])) >= OpeningRangeSize + 1
          /\ \A n \in 1..Len(trades) :
                Len(SessionOn(days[trades[n].symbol], trades[n].entryTime[1]))
                    >= OpeningRangeSize + 1
    /\ (site = "runTradeBot" /\ pc = "loop" /\ sym > 1
            /\ Len(LastRun(data)) < OpeningRangeSize + 1) =>
          /\ range = None
          /\ data # <<>> => \A n \in 1..Len(state.positions) :
                               state.positions[n].symbol # BotTickers[sym - 1]
    /\ (site \in {"detectInvertedSignal", "runLoseBot"}
            /\ Len(LastRun(data)) < OpeningRangeSize + 1) =>
          range = None /\ signal = None
    /\ (site = "getOrbCandidates" /\ Len(data) < OrbRangeSize + 1) =>
          range = None /\ signal = None

\* a seven-candle floor is met: checkSignal was called on a six-candle session
\* that has a prior session
ShortSessionScanned ==
    /\ site = "runPortfolioBacktest" /\ pc = "scan" /\ sym = 2 /\ d = 2
    /\ Len(days[1]) = 2
    /\ Len(days[1][2]) = OpeningRangeSize
    /\ range = None /\ signal = None


\* the trades of a ledger are of pairwise different (symbol, date)
OnePerSymbolAndDate(ledger) ==
    \A n, m \in 1..Len(ledger) :
        (ledger[n].symbol = ledger[m].symbol
            /\ ledger[n].entryTime[1] = ledger[m].entryTime[1]) => n = m

\* C2: each backtest driver (backtestIntraday, testTicker, runPortfolioBacktest
\* with checkSignal) produces at most one signal and at most one ledger trade
\* per symbol per calendar date; once a session has its trade no other position
\* is entered in it.
OneTradePerSymbolPerDay ==
    /\ site \in {"testTicker", "backtestIntraday", "runPortfolioBacktest"} =>
          OnePerSymbolAndDate(trades)
    /\ (site \in {"testTicker", "backtestIntraday"} /\ position # None) =>
          \A n \in 1..Len(trades) :
              trades[n].entryTime[1] = position.entryTime[1]
                  => trades[n].entryTime = position.entryTime
    /\ site = "runPortfolioBacktest" =>
          /\ \A n, m \in 1..Len(dailySignals) :
                dailySignals[n].symbol = dailySignals[m].symbol => n = m
          /\ \A n \in 1..Len(dailySignals) :
                dailySignals[n].candles[1].date[1] = SortedDates(days)[d]

\* testTicker has returned two trades of one symbol, on two dates
TwoDaysTwoTrades ==
    /\ site = "testTicker" /\ pc = "done"
    /\ Len(trades) = 2
    /\ trades[1].entryTime[1] # trades[2].entryTime[1]


\* a backtest position that scaled out has its stop at entry and one leg in
\* pnlAcc; one that did not has its original stop and nothing in pnlAcc
ScaledAtBreakeven(pos) ==
    IF pos.scaledOut
    THEN pos.stop = pos.entryPrice /\ pos.pnlAcc = Abs(pos.target1 - pos.entryPrice)
    ELSE pos.pnlAcc = 0

\* the same of a position record of the live bot, whose quantity halves once
BotScaledAtBreakeven(pos) ==
    IF pos.scaledOut
    THEN pos.stopLoss = pos.entryPrice /\ pos.quantity = pos.initialQty \div 2
    ELSE pos.quantity = pos.initialQty

BotRecordsAtBreakeven(st) ==
    st \notin {None, Corrupt} => \A n \in 1..Len(st.positions) : BotScaledAtBreakeven(st.positions[n])

\* scaledOut, once true, stays true for as long as the position exists
ScaledOutIsKept ==
    /\ (site = "testTicker" /\ position # None /\ position' # None
            /\ position'.entryTime = position.entryTime /\ position.scaledOut)
          => position'.scaledOut
    /\ (site = "runPortfolioBacktest" /\ pc = "simulate" /\ i > 1 /\ k <= Len(top5)
            /\ position.scaledOut)
          => position'.scaledOut
    /\ (site = "runTradeBot" /\ state # None /\ state' # None /\ state'.date = state.date)
          => \A n \in 1..Len(state.positions) :
                state.positions[n].scaledOut =>
                    /\ n <= Len(state'.positions)
                    /\ state'.positions[n].scaledOut
                    /\ state'.positions[n].stopLoss = state.positions[n].entryPrice

Closes == site \in {"testTicker", "runPortfolioBacktest"} /\ Len(trades') = Len(trades) + 1

ManagedBar == IF site = "testTicker" THEN days[d][i] ELSE top5[k].candles[i]

OriginalStop ==
    IF site = "testTicker"
    THEN (IF position'.side = "LONG" THEN range.low ELSE range.high)
    ELSE top5[k].stop

RangeHeight == IF site = "testTicker" THEN range.height ELSE top5[k].rangeHeight

\* a position that has not scaled out is managed on candle ManagedBar
ManagesUnscaled ==
    \/ site = "testTicker" /\ pc = "bar" /\ position # None /\ ~position.scaledOut
    \/ /\ site = "runPortfolioBacktest" /\ pc = "simulate" /\ k <= Len(top5)
       /\ (i = 1 \/ ~position.scaledOut)

\* the candle reaches both the target and the stop of an order
ReachesBoth(c, side, target1, stop) ==
    IF side = "LONG" THEN c.high >= target1 /\ c.low <= stop
    ELSE c.low <= target1 /\ c.high >= stop

ReachesStop(c, side, stop) == IF side = "LONG" THEN c.low <= stop ELSE c.high >= stop

\* C4: within one bar the checks run scale-out, then stop, then end-of-day:
\* a bar that reaches both the target and the original stop of a position that
\* has not scaled out realises the 50% leg at the target, moves the stop to
\* entry and closes the position in the same bar at entry with reason
\* TRAIL_STOP, never STOP; and a trade has reason EOD only on the last bar and
\* only when that bar did not reach the stop.
ScaleOutThenStopThenEod ==
    [][/\ (/\ ManagesUnscaled
           /\ LET o == IF site = "testTicker" THEN position ELSE top5[k]
              IN  ReachesBoth(ManagedBar, o.side, o.target1, o.stop))
          => /\ Len(trades') = Len(trades) + 1
             /\ Last(trades').reason = "TRAIL_STOP"
             /\ Last(trades').exitPrice = Last(trades').entryPrice
             /\ Last(trades').pnl = RangeHeight
             /\ position'.scaledOut
             /\ position'.stop = position'.entryPrice
             /\ position'.pnlAcc = RangeHeight
       /\ (Closes /\ Last(trades').reason = "EOD")
          => /\ ~ReachesStop(ManagedBar, position'.side, position'.stop)
             /\ i = Len(IF site = "testTicker" THEN days[d] ELSE top5[k].candles)
             /\ Last(trades').exitPrice = ManagedBar.close]_vars

\* testTicker closed a long position on the bar after its entry: the bar
\* reached the target and the range low, and the trade is a TRAIL_STOP at entry
BothReachedInOneBar ==
    /\ site = "testTicker" /\ pc = "day" /\ d > 1
    /\ position # None /\ position.side = "LONG" /\ i > OpeningRangeSize + 1
    /\ position.entryTime = days[d - 1][i - 1].date
    /\ days[d - 1][i].high >= position.target1
    /\ days[d - 1][i].low <= range.low
    /\ Len(trades) > 0
    /\ Last(trades).exitTime = days[d - 1][i].date
    /\ Last(trades).reason = "TRAIL_STOP"

\* C5: in simulateTrade and testTicker a trade closed at its stop has reason
\* STOP exactly when the position never scaled out, and then exitPrice is the
\* original stop and pnl = -rangeHeight (return -rangeHeight / entryPrice x
\* 100); it has reason TRAIL_STOP exactly when the position had scaled out,
\* and then exitPrice = entryPrice and pnl = 0.5 x rangeHeight (return
\* 0.5 x rangeHeight / entryPrice x 100, strictly positive).
StopOrTrailStop ==
    [][Closes =>
          LET t == Last(trades')
              pos == position'
          IN  /\ ReachesStop(ManagedBar, pos.side, pos.stop) =>
                    /\ t.reason = "STOP" <=> ~pos.scaledOut
                    /\ t.reason = "TRAIL_STOP" <=> pos.scaledOut
              /\ t.reason \in {"STOP", "TRAIL_STOP"} =>
                    ReachesStop(ManagedBar, pos.side, pos.stop)
              /\ t.reason = "STOP" =>
                    /\ t.exitPrice = OriginalStop
                    /\ t.pnl = -2 * RangeHeight
                    /\ RatEq(t.returnPercent, Rat(-RangeHeight * 100, t.entryPrice))
              /\ t.reason = "TRAIL_STOP" =>
                    /\ t.exitPrice = t.entryPrice
                    /\ t.pnl = RangeHeight
                    /\ RatEq(t.returnPercent, Rat(RangeHeight * 100, 2 * t.entryPrice))
                    /\ RatLt(Rat(0, 1), t.returnPercent)]_vars

\* simulateTrade returned a TRAIL_STOP trade of a position that scaled out on
\* an earlier candle than the one that stopped it
TrailStopAfterScaleOut ==
    /\ site = "runPortfolioBacktest" /\ pc = "simulate" /\ i = 1 /\ k > 1
    /\ Len(trades) > 0
    /\ Last(trades).symbol = top5[k - 1].symbol
    /\ Last(trades).reason = "TRAIL_STOP"
    /\ position.scaledOut
    /\ \E n \in 1..Len(top5[k - 1].candles) :
          LET c == top5[k - 1].candles[n]
          IN  ReachesStop(c, position.side, position.entryPrice)
                /\ ~ReachesBoth(c, position.side, position.target1, position.entryPrice)

\* C6: every closed trade of simulateTrade and testTicker, whatever its
\* reason (STOP, TRAIL_STOP or EOD), has pnl = accumulated scale-out PnL +
\* (exitPrice - entryPrice for LONG, entryPrice - exitPrice for SHORT) x
\* remaining fraction, the fraction 0.5 after a scale-out and 1.0 otherwise,
\* the accumulated PnL 0.5 x rangeHeight after a scale-out and 0 otherwise;
\* returnPercent = pnl / entryPrice x 100, and the trade carries no quantity.
PnlOfClosedTrade ==
    [][Closes =>
          LET t == Last(trades')
              pos == position'
              move == IF t.side = "LONG" THEN t.exitPrice - t.entryPrice
                      ELSE t.entryPrice - t.exitPrice
          IN  /\ t.reason \in {"STOP", "TRAIL_STOP", "EOD"}
              /\ t.side = pos.side /\ t.entryPrice = pos.entryPrice
              /\ t.pnl = IF pos.scaledOut THEN RangeHeight + move ELSE 2 * move
              /\ t.returnPercent = Rat(t.pnl * 100, 2 * t.entryPrice)
              /\ t.returnPercent.den > 0
              /\ "quantity" \notin DOMAIN t]_vars

\* testTicker closed at the end of the day, away from entry, a position that
\* had scaled out
EodAfterScaleOut ==
    /\ site = "testTicker" /\ position # None /\ position.scaledOut
    /\ Len(trades) > 0
    /\ Last(trades).entryTime = position.entryTime
    /\ Last(trades).reason = "EOD"
    /\ Last(trades).exitPrice # position.entryPrice


\* the prior close is known and the gap of the open to it is below num/1000
GapBelow(open, prev, num) == prev > 0 /\ Abs(open - prev) * 1000 < num * prev

\* the place of a calendar date among grouped sessions
PlaceOf(groups, date) == CHOOSE n \in 1..Len(groups) : DayOf(groups[n][1]) = date

\* the session of a date has a prior session and opens below the gap threshold
OpensWithoutGap(groups, date, num) ==
    LET n == PlaceOf(groups, date)
    IN  n > 1 /\ GapBelow(groups[n][1].open, Last(groups[n - 1]).close, num)

\* the same of the last run of fetched candles
LastRunOpensWithoutGap(cs, num) ==
    LET runs == GroupRuns(cs)
    IN  /\ Len(runs) > 1
        /\ GapBelow(Last(runs)[1].open, Last(runs[Len(runs) - 1]).close, num)

\* C7: when the prior session's close is known and |first open - prior close|
\* / prior close is below the gap threshold (0.002 in checkSignal, testTicker
\* and detectInvertedSignal, 0.005 in checkSetup), the session gives no
\* signal, position or trade, whatever breakout bars follow.
NoGapNoTrade ==
    /\ site = "testTicker" =>
          /\ pc = "bar" => ~OpensWithoutGap(days, DayOf(days[d][1]), 2)
          /\ (pc = "day" /\ d > 1 /\ OpensWithoutGap(days, DayOf(days[d - 1][1]), 2))
                => position = None
          /\ \A n \in 1..Len(trades) : ~OpensWithoutGap(days, trades[n].entryTime[1], 2)
    /\ site = "runPortfolioBacktest" =>
          /\ (pc = "scan" /\ sym > 1 /\ d <= Len(SortedDates(days))) =>
                LET s == SetToSeq(DOMAIN days)[sym - 1]
                    date == SortedDates(days)[d]
                IN  (/\ date \in {DayOf(days[s][n][1]) : n \in 1..Len(days[s])}
                     /\ OpensWithoutGap(days[s], date, 2))
                        => signal = None
          /\ \A n \in 1..Len(dailySignals) :
                ~OpensWithoutGap(days[dailySignals[n].symbol],
                                 dailySignals[n].candles[1].date[1], 2)
          /\ \A n \in 1..Len(trades) :
                ~OpensWithoutGap(days[trades[n].symbol], trades[n].entryTime[1], 2)
    /\ (site = "runTradeBot" /\ pc = "loop" /\ sym > 1 /\ data # <<>>
            /\ LastRunOpensWithoutGap(data, 5)) =>
          \A n \in 1..Len(state.positions) :
              state.positions[n].symbol # BotTickers[sym - 1]
    /\ (site \in {"detectInvertedSignal", "runLoseBot"} /\ data # <<>>
            /\ LastRunOpensWithoutGap(data, 2)) =>
          signal = None

\* checkSignal computed the range of a session that opens 0.1% above the
\* prior close and breaks out on its seventh candle, and returned no signal
BreakoutWithoutGap ==
    /\ site = "runPortfolioBacktest" /\ pc = "scan" /\ sym = 2 /\ d = 2
    /\ Len(days[1]) = 2
    /\ OpensWithoutGap(days[1], 3, 2)
    /\ Len(days[1][2]) > OpeningRangeSize
    /\ range # None
    /\ days[1][2][OpeningRangeSize + 1].high > range.high
    /\ days[1][2][OpeningRangeSize + 1].volume * range.avgVol.den
           > range.avgVol.num
    /\ signal = None

\* the symbols of a list of signals
SymbolsOf(sigs) == {sigs[n].symbol : n \in 1..Len(sigs)}

\* the symbols for which checkSignal returns a signal on a date
Signalling(date) == {s \in DOMAIN days : ScanTicker(s, days[s], date).signal # None}

\* C8: in runPortfolioBacktest, on a date on which n symbols produce a signal
\* exactly min(n, 5) signals are passed to simulateTrade, each with relVol
\* greater than or equal to that of every signal dropped on that date, and
\* the dropped signals leave no trade in the ledger.
TopFiveByRelVol ==
    (site = "runPortfolioBacktest" /\ pc = "simulate") =>
        LET date == SortedDates(days)[d]
        IN  /\ SymbolsOf(dailySignals) = Signalling(date)
            /\ Len(dailySignals) = Cardinality(Signalling(date))
            /\ Len(top5) = Min2(Len(dailySignals), TopK)
            /\ Cardinality(SymbolsOf(top5)) = Len(top5)
            /\ \A n \in 1..Len(top5) : \E m \in 1..Len(dailySignals) :
                  top5[n] = dailySignals[m]
            /\ \A n \in 1..Len(top5), m \in 1..Len(dailySignals) :
                  dailySignals[m].symbol \notin SymbolsOf(top5)
                      => RatLe(dailySignals[m].relVol, top5[n].relVol)
            /\ \A n \in 1..Len(trades) :
                  trades[n].entryTime[1] = date =>
                      \E m \in 1..Min2(k, Len(top5)) : trades[n].symbol = top5[m].symbol
            /\ k > Len(top5) =>
                  \A m \in 1..Len(top5) : \E n \in 1..Len(trades) :
                      trades[n].entryTime[1] = date /\ trades[n].symbol = top5[m].symbol

\* more than five symbols signalled on a date, the five simulated left five
\* trades, and a dropped signal had a lower relVol than an admitted one
SixthSignalDropped ==
    /\ site = "runPortfolioBacktest" /\ pc = "simulate" /\ k > Len(top5)
    /\ Len(dailySignals) > TopK
    /\ Len(top5) = TopK
    /\ Len(trades) = TopK
    /\ \E m \in 1..Len(dailySignals) :
          /\ dailySignals[m].symbol \notin SymbolsOf(top5)
          /\ RatLt(dailySignals[m].relVol, top5[1].relVol)

\* the winners and the losers of a ledger by the sign of the return
Winning(ledger) == SelectSeq(ledger, LAMBDA t : t.pnlPercent > 0)

NotWinning(ledger) == SelectSeq(ledger, LAMBDA t : ~(t.pnlPercent > 0))

\* C9: aggregateResults returns profitFactor 0 for the empty ledger and for
\* every ledger with no winning trade, the infinite sentinel when at least one
\* trade wins and the losing trades' returns sum to exactly zero (also when
\* there is no losing trade), and otherwise the sum of the winning returns /
\* |sum of the losing returns|; the result is never undefined or NaN.
ProfitFactorCases ==
    site = "aggregateResults" =>
        \A n \in 1..Len(result) :
            LET pf == result[n].profitFactor
                won == SumPnl(Winning(data))
                lost == Abs(SumPnl(NotWinning(data)))
            IN  /\ pf # NaN
                /\ pf.den # 0 \/ pf = Infinity
                /\ Len(Winning(data)) = 0 => pf.num = 0 /\ pf.den # 0
                /\ (Len(Winning(data)) > 0 /\ lost = 0) => pf = Infinity
                /\ (Len(Winning(data)) > 0 /\ lost # 0) => pf = Rat(won, lost)

\* a ledger with a winner and a loser of return exactly zero was aggregated
\* to the infinite sentinel
InfiniteProfitFactor ==
    /\ site = "aggregateResults" /\ Len(result) > 0
    /\ \E n \in 1..Len(data) : data[n].pnlPercent = 0
    /\ \E n \in 1..Len(data) : data[n].pnlPercent > 0
    /\ result[1].profitFactor = Infinity

\* the statistics of a result agree with the ledger they were computed from
CountsAgree(r, ledger) ==
    /\ r.wins + r.losses = r.totalTrades
    /\ r.totalTrades = Len(ledger)
    /\ r.wins = Len(Winning(ledger))
    /\ IF Len(ledger) = 0 THEN r.winRate = Rat(0, 1)
       ELSE RatEq(r.winRate, Rat(r.wins * 100, r.totalTrades)) /\ r.winRate.den # 0

OneTradeEnteredAt(ledger, time) ==
    Cardinality({n \in 1..Len(ledger) : ledger[n].entryTime = time}) = 1

\* C11: every position opened in a session is closed by the end of that
\* session: a position opened by testTicker, simulateTrade or backtestDay,
\* also one whose breakout bar is the last candle of the session, yields
\* exactly one ledger trade, and a trade closed on the last candle with no
\* stop reached is closed at that candle's close as an end-of-day exit.
EveryPositionClosedBySessionEnd ==
    /\ (site \in {"testTicker", "backtestIntraday"} /\ pc \in {"day", "done"}
            /\ position # None)
          => OneTradeEnteredAt(trades, position.entryTime)
    /\ (site = "runPortfolioBacktest" /\ pc = "simulate" /\ i = 1 /\ k > 1)
          => Cardinality({n \in 1..Len(trades) :
                            /\ trades[n].symbol = top5[k - 1].symbol
                            /\ trades[n].entryTime = top5[k - 1].candles[1].date}) = 1
    /\ site \in {"testTicker", "backtestIntraday", "runPortfolioBacktest"}
          => \A n \in 1..Len(trades) :
                trades[n].reason \in {"EOD", "EOD_EXIT"} =>
                    LET session == IF site = "runPortfolioBacktest"
                                   THEN SessionOn(days[trades[n].symbol], trades[n].entryTime[1])
                                   ELSE SessionOn(days, trades[n].entryTime[1])
                    IN  /\ trades[n].exitTime = Last(session).date
                        /\ trades[n].exitPrice = Last(session).close

----------------------------------------------------------------------------
(* The daily state file *)

\* a state file that parses and carries the given date
StoredFor(file, date) == file \notin {None, Corrupt} /\ file.date = date

\* the step is the loadState of a run that goes on
Loads == pc = "idle" /\ pc' \in {"loop", "portfolio"}

\* nothing in the trade bot's state comes from another date
TradeStateOf(st, date) ==
    /\ st.date = date
    /\ \A n \in 1..Len(st.positions) : st.positions[n].timestamp = date
    /\ st.executed_trades = Len(st.positions)

\* nothing in the lose bot's state comes from another date
LoseStateOf(st, date) ==
    /\ st.date = date
    /\ \A n \in 1..Len(st.executedTrades) : st.executedTrades[n].timestamp = date

\* a step that loads takes the file of today or starts afresh, and a run in
\* progress holds nothing of another date
LoadIsScoped ==
    /\ (site = "runTradeBot" /\ Loads) =>
          /\ StoredFor(botState, today) => state' = botState
          /\ ~StoredFor(botState, today) =>
                state' = [date |-> today, positions |-> <<>>, executed_trades |-> 0]
    /\ (site = "runLoseBot" /\ Loads) =>
          /\ StoredFor(botState, today) => state' = botState
          /\ (botState # Corrupt /\ ~StoredFor(botState, today)) =>
                state' = [date |-> today, executedTrades |-> <<>>,
                          heldSymbols |-> <<>>, totalSpent |-> 0]
    /\ (site = "runTradeBot" /\ pc' = "loop") => TradeStateOf(state', today')
    /\ (site = "runLoseBot" /\ pc' \in {"portfolio", "scan", "execute"}) =>
          LoseStateOf(state', today')

\* C12: loadState returns the stored state only when its date is today's;
\* with no file or a file of another date it returns a fresh state of today
\* (no positions, no executed trades, zero counters), so a run never sees
\* what was recorded on an earlier date, OPEN positions included.
StateIsScopedToToday ==
    [][LoadIsScoped]_vars

\* a run of the trade bot on the day after a position was left OPEN
RunAfterOpenPositionOfYesterday ==
    /\ site = "runTradeBot" /\ pc = "loop"
    /\ StoredFor(botState, today - 1)
    /\ \E n \in 1..Len(botState.positions) : botState.positions[n].status = "OPEN"
    /\ state.positions = <<>>

\* C13: an unreadable state file is never fatal: in the trade bot and in the
\* lose bot loading never raises, the run that finds such a file goes on with
\* a fresh empty state of today.
UnreadableFileIsNeverFatal ==
    /\ site \in {"runTradeBot", "runLoseBot"} => pc # "raised"
    /\ (site = "runTradeBot" /\ pc = "loop" /\ botState = Corrupt) =>
          state = [date |-> today, positions |-> <<>>, executed_trades |-> 0]
    /\ (site = "runLoseBot" /\ pc \in {"portfolio", "scan"} /\ botState = Corrupt) =>
          /\ state.date = today
          /\ state.executedTrades = <<>> /\ state.heldSymbols = <<>>
          /\ state.totalSpent = 0

----------------------------------------------------------------------------
(* The orders of the inverse bot *)

\* the step submits an order that is not placed
OrderFails == pc = "execute" /\ pc' = "execute" /\ run'.tradesFailed # run.tradesFailed

\* the orders submitted so far are the first of the selected signals, in order
SubmittedInOrder(r) ==
    /\ Len(r.submitted) <= Len(r.tradesToExecute)
    /\ \A n \in 1..Len(r.submitted) : r.submitted[n] = r.tradesToExecute[n].symbol
    /\ \A m, n \in 1..Len(r.tradesToExecute) :
          r.tradesToExecute[m].symbol = r.tradesToExecute[n].symbol => m = n

FailedOrdersLeaveNoTrace ==
    /\ (site = "runLoseBot" /\ pc' = "execute") =>
          /\ Len(run'.tradesToExecute) <= 5
          /\ SubmittedInOrder(run')
          /\ run'.tradesPlaced + run'.tradesFailed = Len(run'.submitted)
    /\ (site = "runLoseBot" /\ OrderFails) =>
          /\ run'.tradesFailed = run.tradesFailed + 1
          /\ run'.tradesPlaced = run.tradesPlaced
          /\ state' = state
          /\ run'.cashAvailable = run.cashAvailable
          /\ k' = k + 1

\* C14: in runLoseBot each selected signal is submitted at most once per run;
\* an order that fails or throws adds one to the failed counter, leaves the
\* state (executedTrades, heldSymbols, totalSpent) and cashAvailable as they
\* were, and the loop goes on to the next candidate; placed + failed never
\* exceeds the number of selected signals, which is at most 5.
FailedOrderIsCountedAndSkipped ==
    [][FailedOrdersLeaveNoTrace]_vars

\* six signals found, five selected, and the loop ended with both placed and
\* failed orders
FiveOfSixSubmittedSomeFailed ==
    /\ site = "runLoseBot" /\ pc = "execute"
    /\ Len(run.signals) > 5
    /\ k > Len(run.tradesToExecute)
    /\ run.tradesPlaced > 0 /\ run.tradesFailed > 1
    /\ run.tradesPlaced + run.tradesFailed = 5

\* the symbols of a sequence of trades
TradedSymbols(ts) == {ts[n].symbol : n \in 1..Len(ts)}

\* every symbol is traded at most once in the sequence
TradedOnce(ts) == \A m, n \in 1..Len(ts) : ts[m].symbol = ts[n].symbol => m = n

\* the step submits an order
Submits == pc = "execute" /\ pc' = "execute"

HeldSymbolsAreNotOrdered ==
    /\ (site = "runLoseBot" /\ Submits) =>
          LET symbol == run.tradesToExecute[k].symbol
          IN  /\ run.portfolio # None => symbol \notin run.portfolio.positions
              /\ \A n \in 1..Len(state.heldSymbols) : state.heldSymbols[n] # symbol
              /\ symbol \notin TradedSymbols(state.executedTrades)
    /\ (site = "runLoseBot" /\ state' # None) => TradedOnce(state'.executedTrades)
    /\ (site = "runLoseBot" /\ botState' \notin {None, Corrupt}) =>
          TradedOnce(botState'.executedTrades)

\* C15: runLoseBot never submits an order for a symbol of the fetched
\* portfolio's positions, of the persisted heldSymbols or of today's
\* executedTrades; so over the runs of one date each symbol appears at most
\* once in executedTrades.
NoOrderForHeldSymbol ==
    [][HeldSymbolsAreNotOrdered]_vars

\* a second run of the date places an order next to those the first run saved,
\* with a position held in the portfolio
SecondRunAddsToFirst ==
    /\ site = "runLoseBot" /\ pc = "execute" /\ d = 2
    /\ StoredFor(botState, today)
    /\ Len(botState.executedTrades) > 1
    /\ Len(state.executedTrades) > Len(botState.executedTrades)
    /\ run.portfolio # None /\ run.portfolio.positions # {}

----------------------------------------------------------------------------
(* Fetch failures *)

\* the request failed or gave no candle that the fetcher keeps
NoDailyCandles(response) ==
    \/ response.status # "ok"
    \/ \A n \in 1..Len(response.rows) :
          response.rows[n].open = Null \/ response.rows[n].close = Null

\* the rows of a response that carry an open and a close
CompleteRows(response) ==
    {n \in 1..Len(response.rows) :
        response.rows[n].open # Null /\ response.rows[n].close # Null}

\* the 1-minute response shows a breakout after a full 30-minute range
ShowsBreakout(response) ==
    /\ response.status = "ok"
    /\ Len(response.rows) > 30
    /\ \A n \in 1..Len(response.rows) : response.rows[n].open # Null

\* C16: a symbol whose fetch fails or returns no candles is left out and the
\* run is not aborted: the fetchers return an empty series and never raise,
\* fetchMultipleSymbols omits the symbol from its map, getOrbCandidates
\* returns no candidate for it, and every other symbol of the batch is still
\* fetched and processed.
FailedFetchLeavesSymbolOut ==
    /\ site \in {"fetchMultipleSymbols", "getOrbCandidates"} => pc # "raised"
    /\ (site = "fetchMultipleSymbols" /\ pc = "done") =>
          /\ Len(run.responses) = Len(run.symbols)
          /\ \A n \in 1..Len(run.symbols) :
                IF NoDailyCandles(run.responses[n])
                THEN run.symbols[n] \notin DOMAIN run.results
                ELSE /\ run.symbols[n] \in DOMAIN run.results
                     /\ Len(run.results[run.symbols[n]])
                            = Cardinality(CompleteRows(run.responses[n]))
    /\ (site = "getOrbCandidates" /\ pc = "done") =>
          /\ Len(run.responses) = Len(run.symbols)
          /\ \A n \in 1..Len(run.symbols) :
                /\ (run.responses[n].status # "ok" \/ run.responses[n].rows = <<>>) =>
                      \A m \in 1..Len(run.valid) : run.valid[m].symbol # run.symbols[n]
                /\ ShowsBreakout(run.responses[n]) =>
                      \E m \in 1..Len(run.valid) : run.valid[m].symbol = run.symbols[n]

\* a failed request and a response without rows in the first batch, with
\* symbols kept after them in the same batch and in the next one
FailedAmongFetched ==
    /\ site = "fetchMultipleSymbols" /\ pc = "done"
    /\ run.responses[1] = Throws /\ run.responses[2] = Chart(<<>>)
    /\ {3, 5, 6} \subseteq DOMAIN run.results
    /\ 4 \notin DOMAIN run.results

----------------------------------------------------------------------------
(* The simulator's traded-today gate *)

\* the positions a symbol has opened on a day of its own candles, open or closed
OpenedOn(sim, symbol, day) ==
    Cardinality({n \in 1..Len(sim.positions) :
                    sim.positions[n].symbol = symbol
                    /\ sim.positions[n].entryTime[1] = day})
    + Cardinality({n \in 1..Len(sim.tradeHistory) :
                    sim.tradeHistory[n].symbol = symbol
                    /\ sim.tradeHistory[n].entryTime[1] = day})

\* the symbol's own series starts a new date at idx
RollsOver(tickers, symbol, idx) ==
    LET cs == TickerData(tickers, symbol)
    IN  idx < Len(cs) /\ (idx = 0 \/ DayOf(cs[idx + 1]) # DayOf(cs[idx]))

GateFollowsOwnDate ==
    site = "MarketSimulator" /\ pc = "run" /\ pc' = "run" =>
       \A symbol \in SimSymbols :
          /\ Cardinality({n \in 1..Len(run'.positions) :
                             run'.positions[n].symbol = symbol}) <= 1
          /\ \A day \in 1..MaxDays : OpenedOn(run', symbol, day) <= 1
          /\ (run.tradesToday[symbol] >= 1 /\ run'.tradesToday[symbol] = 0) =>
                RollsOver(data, symbol, i)

\* C17: in MarketSimulator.run, whatever the lengths and dates of the ticker
\* series, a symbol has at most one open position at any tick and opens at
\* most one position per calendar date of its own candles; its traded-today
\* gate is cleared only when its own session date rolls over.
OnePositionPerSymbolAndDate ==
    [][GateFollowsOwnDate]_vars

----------------------------------------------------------------------------
(* The positions of the trade bot *)

\* no two records of the state are of one symbol
OneRecordPerSymbol(st) ==
    \A m, n \in 1..Len(st.positions) :
        st.positions[m].symbol = st.positions[n].symbol => m = n

\* every CLOSED record of the first state is the same record of the second
ClosedKept(before, after) ==
    /\ Len(before.positions) <= Len(after.positions)
    /\ \A n \in 1..Len(before.positions) :
          before.positions[n].status = "CLOSED" =>
             after.positions[n] = before.positions[n]

ClosedStays ==
    (site = "runTradeBot" /\ today' = today) =>
       /\ botState' \notin {None, Corrupt} => OneRecordPerSymbol(botState')
       /\ (pc = "loop" /\ pc' = "loop") => ClosedKept(state, state')
       /\ (pc' = "loop" /\ StoredFor(botState', today')) => ClosedKept(botState', state')
       /\ (StoredFor(botState, today) /\ StoredFor(botState', today')) =>
             ClosedKept(botState, botState')

\* C18: over the runs of runTradeBot on one date the persisted state holds
\* at most one position record per symbol, and CLOSED is terminal: a CLOSED
\* record is never modified again and no new position is opened for its
\* symbol that day.
ClosedIsTerminal ==
    [][ClosedStays]_vars

\* a later run of the date passes over a ticker closed in an earlier run and
\* opens a position for the other ticker
ClosedTickerPassedOver ==
    /\ site = "runTradeBot" /\ pc = "loop" /\ sym > Len(BotTickers)
    /\ StoredFor(botState, today)
    /\ Len(botState.positions) = 1
    /\ botState.positions[1].status = "CLOSED"
    /\ Len(state.positions) = 2
    /\ state.positions[1] = botState.positions[1]

----------------------------------------------------------------------------
(* Exit priority *)

\* the bar reaches the stop and the target of the position
TouchesBoth(p, c) ==
    IF p.side = "LONG" THEN c.low <= p.stop /\ c.high >= p.target
    ELSE c.high >= p.stop /\ c.low <= p.target

\* C19: the exit priority is the same at every call site: for one open
\* position and one bar that touches both its stop and its target,
\* backtestDay, MarketSimulator.managePositions, simulateTrade and testTicker
\* take the same one of target or stop first.
SameExitPriorityEverywhere ==
    (site = "exit rules" /\ TouchesBoth(position, data[1])) =>
       \A a, b \in DOMAIN result : result[a] = result[b]

----------------------------------------------------------------------------
(* The trigger bar *)

\* the bar's volume is at least tenths / 10 of the opening-range average
PassesVolumeGate(c, rng, tenths) ==
    c.volume * rng.avgVol.den * 10 >= rng.avgVol.num * tenths

LeavesRange(c, rng) == c.high > rng.high \/ c.low < rng.low

\* bar t (1-based) is the earliest bar after the window that passes the
\* volume gate and leaves the range
EarliestTrigger(session, rng, tenths, t) ==
    /\ t > OpeningRangeSize
    /\ PassesVolumeGate(session[t], rng, tenths) /\ LeavesRange(session[t], rng)
    /\ \A j \in (OpeningRangeSize + 1)..(t - 1) :
          ~(PassesVolumeGate(session[j], rng, tenths) /\ LeavesRange(session[j], rng))

\* some bar after the window passes the volume gate and leaves the range
HasTrigger(session, rng, tenths) ==
    \E t \in (OpeningRangeSize + 1)..Len(session) :
        PassesVolumeGate(session[t], rng, tenths) /\ LeavesRange(session[t], rng)

\* the session checkSignal was last called on
ScannedSession ==
    SessionOf(days[SetToSeq(DOMAIN days)[sym - 1]], SortedDates(days)[d])

\* C20: in checkSignal and testTicker the trigger bar of a session's signal
\* is the earliest bar after the 6-candle window whose volume is at least
\* the multiple of the opening-range average volume (0.8 in checkSignal,
\* 1.2 in testTicker) and which leaves the range; no bar that fails the
\* volume gate, a bar of volume 0 included, triggers, and no earlier bar
\* that passes both conditions is skipped.
TriggerIsEarliestGatedBreakout ==
    /\ (site = "runPortfolioBacktest" /\ pc = "scan" /\ sym > 1 /\ signal # None) =>
          EarliestTrigger(ScannedSession, range, 8,
                          Len(ScannedSession) - Len(signal.candles) + 1)
    /\ (site = "testTicker" /\ pc = "bar" /\ position # None) =>
          EarliestTrigger(days[d], range, 12, position.entryTime[2])
    /\ (site = "testTicker" /\ pc = "bar" /\ position = None) =>
          ~HasTrigger(SubSeq(days[d], 1, i - 1), range, 12)


----------------------------------------------------------------------------
(* Side and levels of a signal *)

\* side and levels as the range and the trigger bar give them: LONG when the
\* bar's high is above rangeHigh, SHORT otherwise, one range height each way
LevelsOf(side, entryPrice, stop, target1, bar, rng) ==
    /\ side = IF bar.high > rng.high THEN "LONG" ELSE "SHORT"
    /\ side = "LONG" =>
          entryPrice = rng.high /\ stop = rng.low /\ target1 = rng.high + rng.height
    /\ side = "SHORT" =>
          entryPrice = rng.low /\ stop = rng.high /\ target1 = rng.low - rng.height
    /\ Abs(entryPrice - stop) = rng.height
    /\ Abs(target1 - entryPrice) = rng.height

\* the position checkSetup has just opened for the ticker it was called on
\* (0 when it opened none)
JustTriggered ==
    IF site = "runTradeBot" /\ pc = "loop" /\ sym > 1 /\ data # <<>> /\ range # None
    THEN FindPosition(state, BotTickers[sym - 1], "OPEN")
    ELSE 0

\* C21: a signal's side and levels are a function of the range and the
\* trigger bar: LONG when the trigger bar's high is above rangeHigh (also
\* when its low is below rangeLow) with entry rangeHigh, stop rangeLow and
\* target rangeHigh + rangeHeight, SHORT otherwise with entry rangeLow, stop
\* rangeHigh and target rangeLow - rangeHeight, and in both cases entry to
\* stop and entry to target are one rangeHeight, in checkSignal, testTicker
\* and the trade bot's checkSetup with triggerTrade.
SideAndLevelsFollowTriggerBar ==
    /\ (site = "runPortfolioBacktest" /\ pc = "scan" /\ sym > 1 /\ signal # None) =>
          LevelsOf(signal.side, signal.entryPrice, signal.stop, signal.target1,
                   signal.candles[1], range)
    /\ (site = "testTicker" /\ pc = "bar" /\ position # None /\ ~position.scaledOut) =>
          LevelsOf(position.side, position.entryPrice, position.stop,
                   position.target1, days[d][position.entryTime[2]], range)
    /\ JustTriggered # 0 =>
          LET p == state.positions[JustTriggered]
          IN  LevelsOf(p.side, p.entryPrice, p.stopLoss, p.target1, Last(data), range)


----------------------------------------------------------------------------
(* The first session of the fetched data *)

\* some bar after the window leaves the range on more than 1.2 times the
\* average volume of the window
BreaksOutOnVolume(session, rng) ==
    \E t \in (OpeningRangeSize + 1)..Len(session) :
        /\ session[t].volume * rng.avgVol.den * 10 > rng.avgVol.num * 12
        /\ LeavesRange(session[t], rng)

\* a session that passes the price and range filters and has a breakout bar
PassesButForGap(session, hiMille) ==
    /\ Len(session) > OpeningRangeSize
    /\ session[1].close >= 500
    /\ ~RangeRejected(OpeningRange(session, OpeningRangeSize), 5, hiMille)
    /\ BreaksOutOnVolume(session, OpeningRange(session, OpeningRangeSize))

\* the same for checkSetup, which looks at the current candle only and at
\* its close, on at least ten candles
SetupPassesButForGap(cs) ==
    /\ Len(cs) >= 10
    /\ Last(cs).close >= 500
    /\ ~RangeRejected(OpeningRange(cs, OpeningRangeSize), 5, 40)
    /\ LET rng == OpeningRange(cs, OpeningRangeSize)
       IN  /\ Last(cs).volume * rng.avgVol.den * 10 > rng.avgVol.num * 12
           /\ (Last(cs).close > rng.high \/ Last(cs).close < rng.low)

\* C22: when no prior-session close is available, the symbol's first session
\* in the fetched data, the gap filter is skipped rather than failed: a
\* first session that passes the price and range filters and contains a
\* qualifying breakout bar yields a signal in testTicker, in
\* runPortfolioBacktest with checkSignal and in checkSetup.
FirstSessionIsNotGapFiltered ==
    /\ (site = "testTicker" /\ pc = "day" /\ d = 2 /\ PassesButForGap(days[1], 120)) =>
          position # None \/ trades # <<>>
    /\ (site = "runPortfolioBacktest" /\ pc = "scan" /\ sym > 1
            /\ d <= Len(SortedDates(days))) =>
          LET s == SetToSeq(DOMAIN days)[sym - 1]
              date == SortedDates(days)[d]
          IN  (/\ DayOf(days[s][1][1]) = date
               /\ TickerDates(days[s])[1] = date
               /\ PassesButForGap(days[s][1], 120))
                  => signal # None
    /\ (site = "runTradeBot" /\ pc = "loop" /\ sym > 1 /\ data # <<>>
            /\ Len(GroupRuns(data)) = 1 /\ SetupPassesButForGap(data)) =>
          FindPosition(state, BotTickers[sym - 1], "OPEN") # 0


----------------------------------------------------------------------------
(* Time and end-of-data exits of the simulator *)

\* the candles of a position's ticker that managePositions has processed
\* after the entry candle (0-based indices below the loop index)
ProcessedAfterEntry(pos) ==
    LET cs == TickerData(data, pos.symbol)
    IN  {j \in 0..(Len(cs) - 1) :
            j < i /\ getTimeDiffMinutes(pos.entryTime, cs[j + 1].date) > 0}

\* the candle is due for a time exit or an end-of-data exit of the position
ExitDue(pos, j) ==
    LET cs == TickerData(data, pos.symbol)
    IN  \/ getTimeDiffMinutes(pos.entryTime, cs[j + 1].date) >= 120
        \/ j = Len(cs) - 1

\* C23: in MarketSimulator a position that hits neither stop nor target is
\* closed with reason TIME_EXIT on the first processed candle of its ticker
\* at least 120 minutes after entry, or with reason EOD_EXIT on the last
\* candle of its ticker's data if that comes first; hence every position
\* that was opened, one opened on its ticker's last candle included, has
\* been closed and recorded in tradeHistory when run() returns.
EveryPositionClosedWhenRunReturns ==
    site = "MarketSimulator" =>
       /\ \A n \in 1..Len(run.tradeHistory) :
             LET t == run.tradeHistory[n]
                 cs == TickerData(data, t.symbol)
                 earlier == {j \in 0..(Len(cs) - 1) :
                               /\ getTimeDiffMinutes(t.entryTime, cs[j + 1].date) > 0
                               /\ getTimeDiffMinutes(cs[j + 1].date, t.exitTime) > 0}
             IN  /\ t.reason = "TIME_EXIT" =>
                       /\ getTimeDiffMinutes(t.entryTime, t.exitTime) >= 120
                       /\ t.exitTime # Last(cs).date
                 /\ t.reason = "EOD_EXIT" => t.exitTime = Last(cs).date
                 /\ t.reason \in {"TIME_EXIT", "EOD_EXIT"} =>
                       \A j \in earlier :
                           getTimeDiffMinutes(t.entryTime, cs[j + 1].date) < 120
       /\ \A n \in 1..Len(run.positions) :
             \A j \in ProcessedAfterEntry(run.positions[n]) :
                 ~ExitDue(run.positions[n], j)
       /\ pc = "done" => run.positions = <<>>


----------------------------------------------------------------------------
(* The time exit of backtestDay *)

\* no bar of the session after the entry bar, up to the exit bar, reached
\* the stop at the range low or the target of the trade
NeitherStopNorTarget(session, t, prm) ==
    LET rng == OpeningRange(session, prm.rangeMinutes)
    IN  \A j \in (t.entryTime[2] + 1)..t.exitTime[2] :
            /\ session[j].low > rng.low
            /\ session[j].high < t.entryPrice + rng.height * prm.profitTargetR

\* C24: in backtestDay a position is closed with reason TIME_EXIT only on a
\* bar that is at least maxHoldMinutes bars after the position's entry bar,
\* and only if neither the stop nor the target fired on or before that bar.
TimeExitAfterMaxHold ==
    site = "backtestIntraday" =>
       \A n \in 1..Len(trades) :
           trades[n].reason = "TIME_EXIT" =>
              /\ trades[n].exitTime[1] = trades[n].entryTime[1]
              /\ trades[n].exitTime[2] - trades[n].entryTime[2] >= params.maxHoldMinutes
              /\ NeitherStopNorTarget(SessionOn(days, trades[n].entryTime[1]),
                                      trades[n], params)


----------------------------------------------------------------------------
(* The pnl of a position closed after its scale-out *)

\* the signal simulateTrade would be given for a position of the trade bot
SignalOfPosition(p) ==
    [symbol |-> p.symbol, side |-> p.side, entryPrice |-> p.entryPrice,
     stop |-> IF p.side = "LONG" THEN p.entryPrice - p.rangeHeight
              ELSE p.entryPrice + p.rangeHeight,
     target1 |-> p.target1, rangeHeight |-> p.rangeHeight, relVol |-> Rat(0, 1),
     candles |-> <<[date |-> p.timestamp]>>]

\* the pnl, in half-cents, simulateTrade computes for the same entry and
\* target when it scales out and then exits at exitPrice
SimulatedPnlAfterScaleOut(p, exitPrice) ==
    SimTrade(SignalOfPosition(p), SimScaleOut(SimInit(SignalOfPosition(p))),
             exitPrice, "TRAIL_STOP").pnl

\* C25: when the live trade bot closes a position at its stop after the
\* position has scaled out, the pnl it records is the accumulated scale-out
\* pnl, the 50% leg realised at target1, plus the pnl of the remaining half
\* at the exit price: the value simulateTrade computes for the same entry,
\* target and exit.
ClosedAfterScaleOutBooksBothLegs ==
    (site = "runTradeBot" /\ pc = "loop") =>
       \A n \in 1..Len(state.positions) :
           LET p == state.positions[n]
           IN  (p.status = "CLOSED" /\ p.scaledOut) =>
                  2 * p.pnl = SimulatedPnlAfterScaleOut(p, p.stopLoss)


----------------------------------------------------------------------------
(* The size of the lose bot's orders *)

\* a step of the order loop that placed an order: the order is sized at a
\* quarter of the cash at most and leaves the estimated cash non-negative
PlacedOrderIsSized ==
    (site = "runLoseBot" /\ pc = "execute" /\ pc' = "execute"
        /\ run'.tradesPlaced = run.tradesPlaced + 1) =>
       LET t == Last(state'.executedTrades)
       IN  /\ t.symbol = run.tradesToExecute[k].symbol
           /\ t.quantity = Max2(1, run.cashAvailable \div (4 * t.price))
           /\ 4 * t.quantity * t.price <= run.cashAvailable
           /\ run'.cashAvailable = run.cashAvailable - t.quantity * t.price
           /\ run'.cashAvailable >= 0

\* C26: in runLoseBot every submitted order has quantity
\* max(1, floor(0.25 x cashAvailable / price)) and its estimated cost
\* quantity x price is at most 25% of the cash available when it is sized,
\* so the estimated cashAvailable never becomes negative over any sequence
\* of successful orders in a run.
OrdersStayWithinQuarterOfCash == [][PlacedOrderIsSized]_vars


----------------------------------------------------------------------------
(* Setups of one tick of the simulator *)

\* the simulator as scanForSetups finds it on the tick of index i
BeforeScan ==
    managePositions(DayChange([run EXCEPT !.currentTimeIdx = i], data, i), data, i)

\* the ticker gives a setup on the tick: scanForSetups would open it if the
\* cash allowed
GivesSetup(ticker) ==
    i >= SimRangeSize
    /\ Len(SimScanTicker([BeforeScan EXCEPT !.cash = SimStartingCash], ticker, i).positions)
          > Len(BeforeScan.positions)

\* the volume of the ticker's candle of the tick over the average volume of
\* its opening range
SimRelVol(ticker) ==
    LET cs == ticker.data
        startOfToday == StartOfToday(cs, i, 400, DayOf(cs[i + 1]))
        rng == OpeningRange(SubSeq(cs, startOfToday + 1, Len(cs)), SimRangeSize)
    IN  Rat(cs[i + 1].volume * rng.avgVol.den, rng.avgVol.num)

\* the ticker's setup became a position on the tick
Admitted(ticker) ==
    \E n \in 1..Len(run'.positions) :
        /\ run'.positions[n].symbol = ticker.symbol
        /\ run'.positions[n].entryTime = ticker.data[i + 1].date

\* on a tick no setup that is passed over has a higher relative volume than
\* one that is admitted
AdmitsByRelVol ==
    (site = "MarketSimulator" /\ pc = "run" /\ i' = i + 1) =>
       \A m, n \in 1..Len(data) :
           (/\ GivesSetup(data[m]) /\ GivesSetup(data[n])
            /\ Admitted(data[m]) /\ ~Admitted(data[n]))
               => RatLe(SimRelVol(data[n]), SimRelVol(data[m]))

\* C27: in MarketSimulator, when several symbols produce a breakout signal
\* on the same tick, the signals admitted as new positions on that tick are
\* the ones with the highest relative volume (at most K of them), whatever
\* the order in which the tickers were added to the simulator.
AdmittedAreHighestRelVol == [][AdmitsByRelVol]_vars


----------------------------------------------------------------------------
(* Cash and equity of the simulator *)

\* the sum of entryPrice x quantity over positions
RECURSIVE Principal(_)
Principal(ps) ==
    IF ps = <<>> THEN 0
    ELSE ps[1].entryPrice * ps[1].quantity + Principal(Tail(ps))

\* the sum of the pnl of closed trades
RECURSIVE RealizedPnl(_)
RealizedPnl(ts) == IF ts = <<>> THEN 0 ELSE ts[1].pnl + RealizedPnl(Tail(ts))

\* cash, principal of the open positions and equity agree
CashAndEquityAgree ==
    site = "MarketSimulator" =>
       /\ run.cash + Principal(run.positions) = run.equity
       /\ run.equity = SimStartingCash + RealizedPnl(run.tradeHistory)
       /\ run.cash >= 0
       /\ run.positions = <<>> => run.cash = run.equity

\* a tick opens positions only from cash of at least amountPerTrade, each at
\* a cost of at most amountPerTrade
OpensWithinCash ==
    (site = "MarketSimulator" /\ pc = "run" /\ i' = i + 1) =>
       \A n \in 1..Len(run'.positions) :
           LET p == run'.positions[n]
           IN  (\A m \in 1..Len(run.positions) : run.positions[m] # p) =>
                  /\ p.entryPrice * p.quantity <= SimAmountPerTrade
                  /\ run'.cash + p.entryPrice * p.quantity >= SimAmountPerTrade

\* C30: in every reachable state of MarketSimulator, cash plus the sum of
\* entryPrice x quantity over the open positions equals equity, both start
\* at 100000 and equity changes only by the realized pnl of closed trades;
\* a position is opened only when cash is at least amountPerTrade and costs
\* at most amountPerTrade, so opening never makes cash negative, and when
\* no position is open cash equals equity.
CashPlusPrincipalIsEquity == []CashAndEquityAgree /\ [][OpensWithinCash]_vars

\* a position is open after another was closed at a loss
OpenAfterLoss ==
    /\ site = "MarketSimulator"
    /\ run.positions # <<>>
    /\ run.cash < run.equity
    /\ \E n \in 1..Len(run.tradeHistory) : run.tradeHistory[n].pnl < 0


----------------------------------------------------------------------------
(* Session expiry in ApiClient *)

\* the places of the events of a kind in the last call
EventsOf(kind) == {n \in 1..Len(run.events) : run.events[n].kind = kind}

\* the first response showed an expired session
FirstExpired == run.first.status = 401 \/ (run.first.status # 0 /\ run.first.toLogin)

\* C29: for each ApiClient.get or ApiClient.post call the target request is
\* sent at most twice and refreshSession is called at most once: if the
\* first response has status 401 or was redirected to the login page, the
\* session is reset, login is attempted once and the request is re-sent
\* once, and that second response is returned to the caller whatever its
\* status; otherwise the first response is returned and no re-login happens.
OneRefreshOneRetry ==
    (site = "ApiClient" /\ k > 0) =>
       LET fetches == EventsOf("fetch")
           refreshes == EventsOf("refreshSession")
       IN  /\ Cardinality(fetches) <= 2
           /\ Cardinality(refreshes) <= 1
           /\ \A m, n \in fetches :
                 /\ run.events[m].request.method = run.events[n].request.method
                 /\ run.events[m].request.path = run.events[n].request.path
                 /\ run.events[m].request.body = run.events[n].request.body
           /\ FirstExpired =>
                 /\ Cardinality(fetches) = 2
                 /\ \E r \in refreshes :
                       /\ \E f \in fetches : f < r
                       /\ run.events[r + 1].kind = "login"
                       /\ run.events[r + 2].kind = "fetch"
                       /\ Len(run.events) = r + 2
                 /\ ~run.raised => run.response.nth = 2
           /\ ~FirstExpired =>
                 /\ Cardinality(fetches) = 1
                 /\ refreshes = {}
                 /\ run.events[Len(run.events)].kind = "fetch"
                 /\ ~run.raised => run.response = run.first

\* a call whose first response was a redirect to the login page, whose
\* login failed and whose second response, a 500, went back to the caller
RetryReturnedAfterFailedLogin ==
    /\ site = "ApiClient" /\ k > 0
    /\ run.first.status = 200 /\ run.first.toLogin
    /\ ~run.auth.isAuthenticated
    /\ Cardinality(EventsOf("fetch")) = 2
    /\ ~run.raised /\ run.response.nth = 2 /\ run.response.status = 500


----------------------------------------------------------------------------
(* Preview before place in executeTrade *)

\* the places in the request list of the requests to a path
RequestsTo(path) == {n \in 1..Len(run.requests) : run.requests[n].path = path}

\* the preview came back OK with Success = true
PreviewAccepted ==
    run.preview # None /\ run.preview.status = 200 /\ run.preview.body = "Success"

\* C28: executeTrade sends the place-order request only after the preview
\* request for the same payload returned an OK response with Success =
\* true; when account or tournament id cannot be found or the preview
\* fails, no place-order request is sent and the call raises; a failed
\* quote lookup before the preview does not abort the trade.
PlaceOnlyAfterAcceptedPreview ==
    site = "executeTrade" =>
       /\ \A n \in RequestsTo("/trading/placeorderv2") :
             /\ PreviewAccepted
             /\ \E m \in RequestsTo("/trading/previeworderv2") :
                   m < n /\ run.requests[m].body = run.requests[n].body
       /\ (pc \notin {"context", "rankings"}
              /\ (InvalidId(run.accountId) \/ InvalidId(run.tournamentId))) =>
             pc = "raised" /\ RequestsTo("/trading/placeorderv2") = {}
       /\ (RequestsTo("/trading/previeworderv2") # {} /\ ~PreviewAccepted) =>
             pc = "raised" /\ RequestsTo("/trading/placeorderv2") = {}
       /\ (run.quote = "throws" /\ RequestsTo("/trading/previeworderv2") = {}) =>
             pc = "preview"
       /\ (run.quote = "throws" /\ PreviewAccepted /\ pc # "place") =>
             RequestsTo("/trading/placeorderv2") # {}

\* an order placed with success after the quote lookup failed and the
\* preview was accepted on its retry
PlacedAfterFailedQuote ==
    /\ site = "executeTrade" /\ pc = "returned"
    /\ run.quote = "throws"
    /\ run.outcome # None /\ run.outcome.success
    /\ Cardinality(RequestsTo("/trading/previeworderv2")) = 2
    /\ RequestsTo("/trading/placeorderv2") # {}

====
